---- MODULE Spec2Model ----
(***************************************************************************)
(* EGI-STAT: the multi-repository ingestion client with its cache          *)
(* (backend/core/github_client.py) and the tag parser                      *)
(* (backend/core/tag_system_v2.py).                                        *)
(*                                                                         *)
(* Spec     : GitHubMultiRepoClient.  One action per upstream call of      *)
(*            get_commits; every action runs the code up to the next       *)
(*            upstream call (or to the return / raise of get_commits).     *)
(* SpecTag  : TagSystem.parse_tag applied to bounded messages.             *)
(***************************************************************************)
EXTENDS Integers, Sequences, FiniteSets, TLC

VARIABLES
    client,      \* the GitHubMultiRepoClient object (or the constructor's error)
    cache,       \* rows of the sqlite table commits: cache_key -> row
    now,         \* wall clock, in hours
    run,         \* locals of the get_commits call in progress
    last,        \* what the latest finished get_commits call did
    prev,        \* what the finished call before it did
    calls,       \* number of get_commits calls started
    faults,      \* number of upstream calls that failed so far
    message,     \* argument of TagSystem.parse_tag
    ALIAS_MAP,   \* TagSystem._ALIAS_MAP
    parsed,      \* value returned by TagSystem.parse_tag
    call,        \* the function called by the analysis in progress, with its arguments
    ret,         \* the value that call returned (or the exception it raised)
    threads      \* position and locals of each thread using the CommitCache

vars == <<client, cache, now, run, last, prev, calls, faults, message, ALIAS_MAP, parsed,
          call, ret, threads>>

clientVars == <<client, cache, now, run, last, prev, calls, faults>>
tagVars == <<message, ALIAS_MAP, parsed>>
otherVars == <<call, ret, threads>>

None == "None"

(***************************************************************************)
(* Bounds of the model.                                                    *)
(***************************************************************************)
MaxCalls == 2       \* get_commits calls in one behaviour
MaxFaults == 1      \* failing upstream calls in one behaviour
MaxClock == 2       \* hours the clock advances
MaxRepoList == 2    \* length of the repository list given to the constructor

(***************************************************************************)
(* Generic helpers.                                                        *)
(***************************************************************************)
Range(s) == {s[k] : k \in 1..Len(s)}

SeqsUpTo(S, n) == UNION {[1..k -> S] : k \in 0..n}

\* A Python dict (insertion-ordered): a sequence of [key, value] with distinct
\* keys.  d[key] = value, key in d, d.get(key), d.values()
DictHas(d, key) == \E k \in 1..Len(d) : d[k].key = key
DictSet(d, key, value) ==
    IF DictHas(d, key)
    THEN [k \in 1..Len(d) |-> IF d[k].key = key THEN [key |-> key, value |-> value] ELSE d[k]]
    ELSE Append(d, [key |-> key, value |-> value])
DictGet(d, key) ==
    IF DictHas(d, key) THEN d[CHOOSE k \in 1..Len(d) : d[k].key = key].value ELSE None
DictValues(d) == [k \in 1..Len(d) |-> d[k].value]

RECURSIVE InsertByDate(_, _)
\* list.sort(key=date) is stable: c goes after every element whose date is <= c.date
InsertByDate(sorted, c) ==
    IF sorted = <<>> THEN <<c>>
    ELSE IF sorted[Len(sorted)].date <= c.date THEN Append(sorted, c)
    ELSE Append(InsertByDate(SubSeq(sorted, 1, Len(sorted) - 1), c), sorted[Len(sorted)])

RECURSIVE SortByDate(_)
SortByDate(s) ==
    IF s = <<>> THEN <<>>
    ELSE InsertByDate(SortByDate(SubSeq(s, 1, Len(s) - 1)), s[Len(s)])

(***************************************************************************)
(* The upstream commit source: two repositories; r1 has two branches that  *)
(* share commit "b"; commit "c" is also the only commit of r2 (a fork).    *)
(* Dates are days.                                                         *)
(***************************************************************************)
Repos == {"r1", "r2"}

UpstreamBranches(repo) == IF repo = "r1" THEN {"main", "dev"} ELSE {"main"}

UpstreamCommits(repo, branch) ==
    IF repo = "r1" /\ branch = "main" THEN <<"b", "a">>
    ELSE IF repo = "r1" /\ branch = "dev" THEN <<"c", "b">>
    ELSE <<"c">>

UpstreamDate(sha) == IF sha = "a" THEN 0 ELSE 1

UpstreamStats(sha) ==
    IF sha = "a" THEN [additions |-> 3, deletions |-> 1]
    ELSE IF sha = "b" THEN [additions |-> 2, deletions |-> 0]
    ELSE [additions |-> 1, deletions |-> 1]

UpstreamFiles(sha) == IF sha = "a" THEN <<"x.py">> ELSE <<"x.py", "y.md">>

\* Outcome of one upstream call: it succeeds, raises a GithubException that is
\* not a rate limit ("gh": 404, 403 forbidden, ...), raises a GithubException
\* 403 whose data says 'rate limit' ("rl"), or raises an exception that is not
\* a GithubException ("ex": a network error raised by the HTTP layer).
Outcomes == {"ok", "gh", "rl", "ex"}
IsGithubException(o) == o \in {"gh", "rl"}

\* Orders in which repo.get_branches() may list the branches
BranchOrders(repo) ==
    {s \in SeqsUpTo(UpstreamBranches(repo), Cardinality(UpstreamBranches(repo))) :
        /\ Len(s) = Cardinality(UpstreamBranches(repo))
        /\ Range(s) = UpstreamBranches(repo)}

\* repo.get_commits(sha=branch, since=since, until=until + 1 day)
RECURSIVE FilterWindow(_, _, _)
FilterWindow(shas, since, until_inclusive) ==
    IF shas = <<>> THEN <<>>
    ELSE LET rest == FilterWindow(Tail(shas), since, until_inclusive)
         IN IF since <= UpstreamDate(Head(shas)) /\ UpstreamDate(Head(shas)) < until_inclusive
            THEN <<Head(shas)>> \o rest
            ELSE rest

ListCommits(repo, branch, since, until) ==
    LET until_inclusive == until + 1
    IN FilterWindow(UpstreamCommits(repo, branch), since, until_inclusive)

(***************************************************************************)
(* Inputs of the client.                                                   *)
(***************************************************************************)
Tokens == {None, "tok"}
\* repositories=None and repositories=[] both give [] (repositories or [])
RepoListArgs == SeqsUpTo(Repos, MaxRepoList)
Sinces == {0}
Untils == {0, 1}
MaxAges == {1}

(***************************************************************************)
(* CommitCache                                                             *)
(***************************************************************************)
NoRow == [present |-> FALSE, data |-> <<>>, timestamp |-> 0]

\* Optional[List[Dict]]: None, or a list
NoData == [is_none |-> TRUE, list |-> <<>>]
SomeData(list) == [is_none |-> FALSE, list |-> list]

_make_key(repo, since, until) == <<repo, since, until>>

CacheKeys == {_make_key(r, s, u) : r \in Repos, s \in Sinces, u \in Untils}

\* (mutant of CacheGet: a row is returned whatever its age)
CacheGetAnyAge(c, repo, since, until, max_age_hours, clock) ==
    LET row == c[_make_key(repo, since, until)]
    IN IF ~row.present THEN NoData ELSE SomeData(row.data)

\* CommitCache.get
CacheGet(c, repo, since, until, max_age_hours, clock) ==
    LET key == _make_key(repo, since, until)
        row == c[key]
    IN IF ~row.present THEN NoData
       ELSE LET age_hours == clock - row.timestamp
            IN IF age_hours > max_age_hours THEN NoData ELSE SomeData(row.data)

\* (mutant of CacheSet: the data of a row is replaced, its timestamp is not)
CacheSetDataOnly(c, repo, since, until, data, clock) ==
    LET key == _make_key(repo, since, until)
    IN [c EXCEPT ![key] = [present |-> TRUE, data |-> data,
                           timestamp |-> IF @.present THEN @.timestamp ELSE clock]]

\* CommitCache.set: INSERT OR REPLACE
CacheSet(c, repo, since, until, data, clock) ==
    LET key == _make_key(repo, since, until)
    IN [c EXCEPT ![key] = [present |-> TRUE, data |-> data, timestamp |-> clock]]

\* asdict(c) written by json.dumps(..., default=str): the datetime becomes its str()
ToJson(commit) == [commit EXCEPT !.date = <<"str", commit.date>>]

\* datetime.fromisoformat
FromIsoformat(s) == s[2]

\* the cache-hit branch of _get_repo_commits: after json.loads the date is a str,
\* so it goes through datetime.fromisoformat before CommitData(**c_dict)
FromCached(c_dict) == [c_dict EXCEPT !.date = FromIsoformat(c_dict.date)]

\* Python truth value of the Optional[List] returned by CommitCache.get
Truthy(cached) == ~cached.is_none /\ cached.list # <<>>

(***************************************************************************)
(* GitHubMultiRepoClient                                                   *)
(***************************************************************************)
NoClient == [status |-> "none", token |-> None, repositories |-> <<>>]

IdleRun ==
    [pc |-> "idle", since |-> 0, until |-> 0, use_cache |-> FALSE, max_age |-> 0,
     i |-> 0, all_commits |-> <<>>, branches |-> <<>>, gh_commits |-> <<>>,
     commits_by_sha |-> <<>>, net |-> 0, error |-> None,
     rl |-> FALSE, repoFail |-> {}, branchFail |-> {}, statsFail |-> {},
     listed |-> {}, hits |-> {}]

NoCall ==
    [outcome |-> "none", since |-> 0, until |-> 0, use_cache |-> FALSE, max_age |-> 0,
     repositories |-> <<>>, time |-> 0, result |-> <<>>, net |-> 0, error |-> None,
     rl |-> FALSE, repoFail |-> {}, branchFail |-> {}, statsFail |-> {},
     listed |-> {}, hits |-> {}]

\* what a finished call leaves behind: its arguments, how it ended and what it
\* returned, with the record of what happened upstream during it
Summary(r, outcome) ==
    [outcome |-> outcome, since |-> r.since, until |-> r.until,
     use_cache |-> r.use_cache, max_age |-> r.max_age,
     repositories |-> client.repositories, time |-> now,
     result |-> IF outcome = "returned" THEN SortByDate(r.all_commits) ELSE <<>>,
     net |-> r.net, error |-> r.error, rl |-> r.rl, repoFail |-> r.repoFail,
     branchFail |-> r.branchFail, statsFail |-> r.statsFail,
     listed |-> r.listed, hits |-> r.hits]


\* (mutant of DedupKey: one dict entry per branch and commit)
DedupKeyPerBranch(sha, branch) == <<sha, branch>>

\* the key under which _fetch_commits_from_api deduplicates a listed commit
DedupKey(sha, branch) == sha

\* the loop of get_commits from repository number i on: a repository whose
\* cache row is fresh and truthy is served from the cache; the first one that
\* is not goes to client.get_repo; after the last one get_commits returns
RECURSIVE Enter(_, _, _)
Enter(r, i, c) ==
    IF i > Len(client.repositories) THEN [r EXCEPT !.pc = "return", !.i = i]
    ELSE LET repo_name == client.repositories[i]
             cached == IF r.use_cache
                       THEN CacheGet(c, repo_name, r.since, r.until, r.max_age, now)
                       ELSE NoData
         IN IF r.use_cache /\ Truthy(cached)
            THEN Enter([r EXCEPT !.all_commits = @ \o [k \in 1..Len(cached.list) |-> FromCached(cached.list[k])],
                                 !.hits = @ \cup {i}], i + 1, c)
            ELSE [r EXCEPT !.pc = "get_repo", !.i = i, !.branches = <<>>,
                           !.gh_commits = <<>>, !.commits_by_sha = <<>>]

\* A _get_repo_commits whose handler caches the empty list it returns.
RepoFailedCached(r, c, kind) ==
    LET c2 == IF r.use_cache
              THEN CacheSet(c, client.repositories[r.i], r.since, r.until, <<>>, now)
              ELSE c
    IN [run |-> Enter([r EXCEPT !.repoFail = @ \cup {<<r.i, kind>>}], r.i + 1, c2),
        cache |-> c2]

\* _get_repo_commits caught a GithubException: it returns []
RepoFailed(r, c, kind) ==
    [run |-> Enter([r EXCEPT !.repoFail = @ \cup {<<r.i, kind>>}], r.i + 1, c),
     cache |-> c]

\* an exception that is not a GithubException: no handler of get_commits
\* catches it, and it leaves get_commits while repository number i is fetched
Raise(r, c) ==
    [run |-> [r EXCEPT !.pc = "raise", !.error = "ex",
                       !.repoFail = @ \cup {<<r.i, "ex">>}],
     cache |-> c]

\* _fetch_commits_from_api returned: cache the list, return it to get_commits
RepoDone(r, c) ==
    LET commits == DictValues(r.commits_by_sha)
        repo_name == client.repositories[r.i]
        c2 == IF r.use_cache
              THEN CacheSet(c, repo_name, r.since, r.until, [k \in 1..Len(commits) |-> ToJson(commits[k])], now)
              ELSE c
    IN [run |-> Enter([r EXCEPT !.all_commits = @ \o commits], r.i + 1, c2),
        cache |-> c2]

\* for branch in branches: the next branch's commit listing, or the end of the loop
NextBranch(r, c) ==
    IF r.branches = <<>> THEN RepoDone(r, c)
    ELSE [run |-> [r EXCEPT !.pc = "list_commits", !.gh_commits = <<>>], cache |-> c]

\* for gh_commit in gh_commits: skip the commits already in commits_by_sha;
\* the first new one goes to _parse_commit
RECURSIVE NextCommit(_, _)
NextCommit(r, c) ==
    IF r.gh_commits = <<>> THEN NextBranch([r EXCEPT !.branches = Tail(@)], c)
    ELSE IF DictHas(r.commits_by_sha, DedupKey(Head(r.gh_commits), Head(r.branches)))
         THEN NextCommit([r EXCEPT !.gh_commits = Tail(@)], c)
         ELSE [run |-> [r EXCEPT !.pc = "stats"], cache |-> c]

\* _parse_commit's CommitData(...), stored in commits_by_sha
\* A _parse_commit that returns None when the file fetch failed: the commit
\* is dropped from the result.
StoreCommitUnlessFilesFailed(r, c, additions, deletions, files_list) ==
    LET sha == Head(r.gh_commits)
        commit_data ==
            [sha |-> sha, repository |-> client.repositories[r.i],
             date |-> UpstreamDate(sha), files_changed |-> files_list,
             additions |-> additions, deletions |-> deletions,
             total_changes |-> additions + deletions]
    IN NextCommit([r EXCEPT
                     !.commits_by_sha =
                         IF files_list = <<>> THEN @
                         ELSE DictSet(@, DedupKey(sha, Head(r.branches)), commit_data),
                     !.gh_commits = Tail(@)], c)

StoreCommit(r, c, additions, deletions, files_list) ==
    LET sha == Head(r.gh_commits)
        commit_data ==
            [sha |-> sha, repository |-> client.repositories[r.i],
             date |-> UpstreamDate(sha), files_changed |-> files_list,
             additions |-> additions, deletions |-> deletions,
             total_changes |-> additions + deletions]
    IN NextCommit([r EXCEPT
                     !.commits_by_sha =
                         DictSet(@, DedupKey(sha, Head(r.branches)), commit_data),
                     !.gh_commits = Tail(@)], c)

\* the effect of one step on the state: the call goes on, or get_commits ends
Commit(res) ==
    /\ cache' = res.cache
    /\ IF res.run.pc = "return"
       THEN run' = IdleRun /\ last' = Summary(res.run, "returned") /\ prev' = last
       ELSE IF res.run.pc = "raise"
       THEN run' = IdleRun /\ last' = Summary(res.run, "raised") /\ prev' = last
       ELSE run' = res.run /\ UNCHANGED <<last, prev>>

\* an upstream call is made and ends with outcome o
Upstream(o) ==
    /\ o = "ok" \/ faults < MaxFaults
    /\ faults' = IF o = "ok" THEN faults ELSE faults + 1

Called(r, o) == [r EXCEPT !.net = @ + 1, !.rl = @ \/ o = "rl"]

\* GitHubMultiRepoClient.__init__
Construct(have_pygithub, token, env_token, repositories) ==
    /\ client.status = "none"
    /\ client' =
         IF ~have_pygithub
         THEN [status |-> "ImportError", token |-> None, repositories |-> <<>>]
         ELSE LET tok == IF token # None THEN token ELSE env_token
              IN IF tok = None
                 THEN [status |-> "ValueError", token |-> None, repositories |-> <<>>]
                 ELSE [status |-> "ready", token |-> tok, repositories |-> repositories]
    /\ UNCHANGED <<cache, now, run, last, prev, calls, faults>>
    /\ UNCHANGED <<tagVars, otherVars>>

\* GitHubMultiRepoClient.add_repository
AddRepository(repo) ==
    /\ client.status = "ready"
    /\ run.pc = "idle"
    /\ client' = IF repo \notin Range(client.repositories)
                 THEN [client EXCEPT !.repositories = Append(@, repo)]
                 ELSE client
    /\ UNCHANGED <<cache, now, run, last, prev, calls, faults>>
    /\ UNCHANGED <<tagVars, otherVars>>

\* GitHubMultiRepoClient.get_commits, up to its first upstream call
GetCommits(since, until, use_cache, cache_max_age_hours) ==
    /\ client.status = "ready"
    /\ run.pc = "idle"
    /\ calls < MaxCalls
    /\ calls' = calls + 1
    /\ LET r == [IdleRun EXCEPT !.since = since, !.until = until,
                                !.use_cache = use_cache,
                                !.max_age = cache_max_age_hours]
       IN Commit([run |-> Enter(r, 1, cache), cache |-> cache])
    /\ UNCHANGED <<client, now, faults>>
    /\ UNCHANGED <<tagVars, otherVars>>

\* _get_repo_commits: self.client.get_repo(repo_name)
GetRepo(o) ==
    /\ run.pc = "get_repo"
    /\ Upstream(o)
    /\ LET r == Called(run, o)
       IN Commit(IF o = "ok" THEN [run |-> [r EXCEPT !.pc = "get_branches"], cache |-> cache]
                 ELSE IF IsGithubException(o) THEN RepoFailed(r, cache, o)
                 ELSE Raise(r, cache))
    /\ UNCHANGED <<client, now, calls>>
    /\ UNCHANGED <<tagVars, otherVars>>

\* _fetch_commits_from_api: list(repo.get_branches())
GetBranches(o, order) ==
    /\ run.pc = "get_branches"
    /\ Upstream(o)
    /\ order \in BranchOrders(client.repositories[run.i])
    /\ LET r == Called(run, o)
       IN Commit(IF o = "ok" THEN NextBranch([r EXCEPT !.branches = order], cache)
                 ELSE IF o = "rl"
                 THEN [run |-> [r EXCEPT !.pc = "get_rate_limit"], cache |-> cache]
                 ELSE IF o = "gh" THEN RepoFailed(r, cache, o)
                 ELSE Raise(r, cache))
    /\ UNCHANGED <<client, now, calls>>
    /\ UNCHANGED <<tagVars, otherVars>>

\* _fetch_commits_from_api, the rate-limit handler: self.client.get_rate_limit(),
\* two prints, then the GithubException is raised again
GetRateLimit(o) ==
    /\ run.pc = "get_rate_limit"
    /\ Upstream(o)
    /\ LET r == Called(run, o)
       IN Commit(IF o = "ok" \/ IsGithubException(o) THEN RepoFailed(r, cache, "rl")
                 ELSE Raise(r, cache))
    /\ UNCHANGED <<client, now, calls>>
    /\ UNCHANGED <<tagVars, otherVars>>

\* _fetch_commits_from_api: repo.get_commits(sha=branch.name, ...) and the
\* first step of the iteration over it
ListBranch(o) ==
    /\ run.pc = "list_commits"
    /\ Upstream(o)
    /\ LET r == Called(run, o)
           branch == Head(run.branches)
           gh_commits == ListCommits(client.repositories[run.i], branch, run.since, run.until)
       IN Commit(IF o = "ok"
                 THEN NextCommit([r EXCEPT !.gh_commits = gh_commits,
                                           !.listed = @ \cup {<<r.i, branch, gh_commits[k]>> :
                                                              k \in 1..Len(gh_commits)}],
                                 cache)
                 ELSE IF IsGithubException(o)
                 THEN NextBranch([r EXCEPT !.branches = Tail(@),
                                           !.branchFail = @ \cup {<<r.i, branch, o>>}], cache)
                 ELSE Raise([r EXCEPT !.branchFail = @ \cup {<<r.i, branch, o>>}], cache))
    /\ UNCHANGED <<client, now, calls>>
    /\ UNCHANGED <<tagVars, otherVars>>

\* _parse_commit: gh_commit.stats
FetchStats(o) ==
    /\ run.pc = "stats"
    /\ Upstream(o)
    /\ LET r == Called(run, o)
           sha == Head(run.gh_commits)
       IN Commit(IF o = "ok"
                 THEN StoreCommit(r, cache, UpstreamStats(sha).additions,
                                  UpstreamStats(sha).deletions, UpstreamFiles(sha))
                 ELSE [run |-> [r EXCEPT !.pc = "files",
                                         !.statsFail = @ \cup {<<r.i, sha, o>>}],
                       cache |-> cache])
    /\ UNCHANGED <<client, now, calls>>
    /\ UNCHANGED <<tagVars, otherVars>>

\* _parse_commit: gh_commit.files, when gh_commit.stats has raised (so the
\* commit is not completed yet and the access fetches it again)
FetchFiles(o) ==
    /\ run.pc = "files"
    \* (the fetch that follows a failed one may fail as well: it is not
    \* counted as a further fault)
    /\ o = "ok" \/ faults <= MaxFaults
    /\ UNCHANGED faults
    /\ LET r == Called(run, o)
           sha == Head(run.gh_commits)
       IN Commit(StoreCommit(r, cache, 0, 0, IF o = "ok" THEN UpstreamFiles(sha) ELSE <<>>))
    /\ UNCHANGED <<client, now, calls>>
    /\ UNCHANGED <<tagVars, otherVars>>

\* an hour passes between two calls
Tick ==
    /\ run.pc = "idle"
    /\ now < MaxClock
    /\ now' = now + 1
    /\ UNCHANGED <<client, cache, run, last, prev, calls, faults>>
    /\ UNCHANGED <<tagVars, otherVars>>

NoParse == [tag |-> None, confidence |-> 0]

\* no analysis function has been called, none has returned
NoArgs == [fn |-> "none"]
NoReturn == [fn |-> "none"]

Init ==
    /\ client = NoClient
    /\ cache = [k \in CacheKeys |-> NoRow]
    /\ now = 0
    /\ run = IdleRun
    /\ last = NoCall
    /\ prev = NoCall
    /\ calls = 0
    /\ faults = 0
    /\ message = <<>>
    /\ ALIAS_MAP = <<>>
    /\ parsed = NoParse
    /\ call = NoArgs /\ ret = NoReturn /\ threads = <<>>

Next ==
    \/ \E h \in BOOLEAN, t \in Tokens, e \in Tokens, rs \in RepoListArgs : Construct(h, t, e, rs)
    \/ \E repo \in Repos : AddRepository(repo)
    \/ \E s \in Sinces, u \in Untils, uc \in BOOLEAN, m \in MaxAges : GetCommits(s, u, uc, m)
    \/ \E o \in Outcomes : GetRepo(o)
    \/ \E o \in Outcomes, order \in SeqsUpTo(UNION {UpstreamBranches(r) : r \in Repos}, 2) :
          GetBranches(o, order)
    \/ \E o \in Outcomes : GetRateLimit(o)
    \/ \E o \in Outcomes : ListBranch(o)
    \/ \E o \in Outcomes : FetchStats(o)
    \/ \E o \in Outcomes : FetchFiles(o)
    \/ Tick

Spec == Init /\ [][Next]_vars

(***************************************************************************)
(* TagSystem (tag_system_v2.py).  A string is the sequence of the code     *)
(* points of its characters.                                               *)
(***************************************************************************)
MaxChunks == 4      \* chunks of the vocabulary in one commit message

\* TagSystem.TAGS, in declaration order: the canonical name and the aliases
TAGS ==
    <<
    [name |-> "FEAT", chars |-> <<70, 69, 65, 84>>, aliases |-> <<
        <<70, 69, 65, 84, 85, 82, 69>>,   \* 'FEATURE'
        <<10024>>,   \* 'U+2728'
        <<102, 101, 97, 116>>,   \* 'feat'
        <<102, 101, 97, 116, 58>>,   \* 'feat:'
        <<102, 101, 97, 116, 117, 114, 101, 58>>    \* 'feature:'
        >>],
    [name |-> "FIX", chars |-> <<70, 73, 88>>, aliases |-> <<
        <<102, 105, 120>>,   \* 'fix'
        <<102, 105, 120, 58>>,   \* 'fix:'
        <<70, 73, 88, 58>>,   \* 'FIX:'
        <<128027>>,   \* 'U+1F41B'
        <<98, 117, 103, 102, 105, 120>>    \* 'bugfix'
        >>],
    [name |-> "REFACTOR", chars |-> <<82, 69, 70, 65, 67, 84, 79, 82>>, aliases |-> <<
        <<82, 65, 70, 65, 67, 84, 79, 82>>,   \* 'RAFACTOR'
        <<9851, 65039>>,   \* 'U+267B U+FE0F'
        <<114, 101, 102, 97, 99, 116, 111, 114>>,   \* 'refactor'
        <<114, 101, 102, 97, 99, 116, 111, 114, 58>>,   \* 'refactor:'
        <<114, 101, 102, 97, 99, 116, 111, 114, 105, 110, 103>>    \* 'refactoring'
        >>],
    [name |-> "TEST", chars |-> <<84, 69, 83, 84>>, aliases |-> <<
        <<116, 101, 115, 116>>,   \* 'test'
        <<116, 101, 115, 116, 58>>,   \* 'test:'
        <<116, 101, 115, 116, 115>>,   \* 'tests'
        <<129514>>,   \* 'U+1F9EA'
        <<116, 101, 115, 116, 105, 110, 103>>    \* 'testing'
        >>],
    [name |-> "DEBUG", chars |-> <<68, 69, 66, 85, 71>>, aliases |-> <<
        <<100, 101, 98, 117, 103>>,   \* 'debug'
        <<100, 101, 98, 117, 103, 58>>,   \* 'debug:'
        <<100, 101, 98, 117, 103, 103, 105, 110, 103>>    \* 'debugging'
        >>],
    [name |-> "DOC", chars |-> <<68, 79, 67>>, aliases |-> <<
        <<100, 111, 99, 115>>,   \* 'docs'
        <<68, 79, 67, 83>>,   \* 'DOCS'
        <<100, 111, 99, 58>>,   \* 'doc:'
        <<100, 111, 99, 115, 58>>,   \* 'docs:'
        <<128218>>,   \* 'U+1F4DA'
        <<100, 111, 99, 117, 109, 101, 110, 116, 97, 116, 105, 111, 110>>    \* 'documentation'
        >>],
    [name |-> "CONFIG", chars |-> <<67, 79, 78, 70, 73, 71>>, aliases |-> <<
        <<99, 111, 110, 102, 105, 103>>,   \* 'config'
        <<99, 111, 110, 102, 105, 103, 58>>,   \* 'config:'
        <<99, 111, 110, 102, 105, 103, 117, 114, 97, 116, 105, 111, 110>>,   \* 'configuration'
        <<128295>>    \* 'U+1F527'
        >>],
    [name |-> "CHORE", chars |-> <<67, 72, 79, 82, 69>>, aliases |-> <<
        <<99, 104, 111, 114, 101>>,   \* 'chore'
        <<99, 104, 111, 114, 101, 58>>,   \* 'chore:'
        <<128296>>,   \* 'U+1F528'
        <<109, 97, 105, 110, 116, 101, 110, 97, 110, 99, 101>>    \* 'maintenance'
        >>],
    [name |-> "I18N", chars |-> <<73, 49, 56, 78>>, aliases |-> <<
        <<105, 49, 56, 110>>,   \* 'i18n'
        <<73, 49, 56, 78>>,   \* 'I18N'
        <<105, 49, 56, 110, 58>>,   \* 'i18n:'
        <<127757>>,   \* 'U+1F30D'
        <<116, 114, 97, 110, 115, 108, 97, 116, 105, 111, 110>>,   \* 'translation'
        <<108, 111, 99, 97, 108, 101>>    \* 'locale'
        >>],
    [name |-> "PERF", chars |-> <<80, 69, 82, 70>>, aliases |-> <<
        <<112, 101, 114, 102>>,   \* 'perf'
        <<80, 69, 82, 70>>,   \* 'PERF'
        <<112, 101, 114, 102, 58>>,   \* 'perf:'
        <<112, 101, 114, 102, 111, 114, 109, 97, 110, 99, 101>>,   \* 'performance'
        <<9889>>    \* 'U+26A1'
        >>],
    [name |-> "SECURITY", chars |-> <<83, 69, 67, 85, 82, 73, 84, 89>>, aliases |-> <<
        <<115, 101, 99, 117, 114, 105, 116, 121>>,   \* 'security'
        <<83, 69, 67, 85, 82, 73, 84, 89>>,   \* 'SECURITY'
        <<115, 101, 99, 117, 114, 105, 116, 121, 58>>,   \* 'security:'
        <<128274>>,   \* 'U+1F512'
        <<115, 101, 99, 58>>    \* 'sec:'
        >>],
    [name |-> "WIP", chars |-> <<87, 73, 80>>, aliases |-> <<
        <<119, 105, 112>>,   \* 'wip'
        <<87, 73, 80>>,   \* 'WIP'
        <<119, 105, 112, 58>>,   \* 'wip:'
        <<128679>>,   \* 'U+1F6A7'
        <<119, 111, 114, 107, 32, 105, 110, 32, 112, 114, 111, 103, 114, 101, 115, 115>>    \* 'work in progress'
        >>],
    [name |-> "REVERT", chars |-> <<82, 69, 86, 69, 82, 84>>, aliases |-> <<
        <<114, 101, 118, 101, 114, 116>>,   \* 'revert'
        <<82, 69, 86, 69, 82, 84>>,   \* 'REVERT'
        <<114, 101, 118, 101, 114, 116, 58>>,   \* 'revert:'
        <<9194>>    \* 'U+23EA'
        >>],
    [name |-> "MERGE", chars |-> <<77, 69, 82, 71, 69>>, aliases |-> <<
        <<109, 101, 114, 103, 101>>,   \* 'merge'
        <<77, 69, 82, 71, 69>>,   \* 'MERGE'
        <<77, 101, 114, 103, 101, 32, 98, 114, 97, 110, 99, 104>>,   \* 'Merge branch'
        <<77, 101, 114, 103, 101, 32, 112, 117, 108, 108, 32, 114, 101, 113, 117, 101, 115, 116>>    \* 'Merge pull request'
        >>],
    [name |-> "DEPLOY", chars |-> <<68, 69, 80, 76, 79, 89>>, aliases |-> <<
        <<100, 101, 112, 108, 111, 121>>,   \* 'deploy'
        <<68, 69, 80, 76, 79, 89>>,   \* 'DEPLOY'
        <<100, 101, 112, 108, 111, 121, 109, 101, 110, 116>>,   \* 'deployment'
        <<128640>>    \* 'U+1F680'
        >>],
    [name |-> "UPDATE", chars |-> <<85, 80, 68, 65, 84, 69>>, aliases |-> <<
        <<117, 112, 100, 97, 116, 101>>,   \* 'update'
        <<85, 80, 68, 65, 84, 69>>,   \* 'UPDATE'
        <<117, 112, 100, 97, 116, 101, 115>>    \* 'updates'
        >>]
    >>

\* str.lower(), on the characters of the names, aliases and messages (ASCII
\* letters; the other characters used here have no lower case)
LowerChar(c) == IF c \in 65..90 THEN c + 32 ELSE c
Lower(str) == [k \in 1..Len(str) |-> LowerChar(str[k])]

\* str.strip(): the ASCII white space
Whitespace == {9, 10, 11, 12, 13, 28, 29, 30, 31, 32}
RECURSIVE LStrip(_)
LStrip(str) ==
    IF str # <<>> /\ Head(str) \in Whitespace THEN LStrip(Tail(str)) ELSE str
RECURSIVE RStrip(_)
RStrip(str) ==
    IF str # <<>> /\ str[Len(str)] \in Whitespace
    THEN RStrip(SubSeq(str, 1, Len(str) - 1))
    ELSE str
Strip(str) == RStrip(LStrip(str))

\* A build that registers each alias as written only, without its
\* lower-cased form.
TagInsertionsAsWritten(config) ==
    <<[key |-> config.chars, tag |-> config.name],
      [key |-> Lower(config.chars), tag |-> config.name]>>
    \o [k \in 1..Len(config.aliases) |->
          [key |-> config.aliases[k], tag |-> config.name]]

\* the assignments of _build_alias_map's two loops, in the order they are made
TagInsertions(config) ==
    <<[key |-> config.chars, tag |-> config.name],
      [key |-> Lower(config.chars), tag |-> config.name]>>
    \o [k \in 1..(2 * Len(config.aliases)) |->
          IF k % 2 = 1
          THEN [key |-> config.aliases[(k + 1) \div 2], tag |-> config.name]
          ELSE [key |-> Lower(config.aliases[k \div 2]), tag |-> config.name]]

\* the inner loops of _build_alias_map for one tag, from assignment k on
\* (Len(map) < 0 is never true: it has the map evaluated before the next step)
RECURSIVE InsertTag(_, _, _)
InsertTag(map, insertions, k) ==
    IF k > Len(insertions) \/ Len(map) < 0 THEN map
    ELSE InsertTag(DictSet(map, insertions[k].key, insertions[k].tag), insertions, k + 1)

\* the outer loop of _build_alias_map, from tag number t on
RECURSIVE InsertTagsFrom(_, _)
InsertTagsFrom(map, t) ==
    IF t > Len(TAGS) THEN map
    ELSE InsertTagsFrom(InsertTag(map, TagInsertions(TAGS[t]), 1), t + 1)

\* the map the loops build from the empty _ALIAS_MAP
BuiltAliasMap == InsertTagsFrom(<<>>, 1)

\* TagSystem._build_alias_map
_build_alias_map(map) == IF map # <<>> THEN map ELSE BuiltAliasMap

\* a re.Match object with its group(1), or None
NoMatch == [matched |-> FALSE, group |-> <<>>]
Match(group) == [matched |-> TRUE, group |-> group]

\* re.search(r'\[([^\]]+)\]', s): the leftmost match, or None.
\* A match that starts at the '[' at position i ends at the first ']' after
\* it, and needs at least one character in between.
OpenBracket == 91
CloseBracket == 93
FirstClose(str, i) ==
    IF \E j \in (i + 1)..Len(str) : str[j] = CloseBracket
    THEN CHOOSE j \in (i + 1)..Len(str) :
            /\ str[j] = CloseBracket
            /\ \A h \in (i + 1)..(j - 1) : str[h] # CloseBracket
    ELSE 0
BracketStarts(str) ==
    {i \in 1..Len(str) : str[i] = OpenBracket /\ FirstClose(str, i) > i + 1}
BracketMatch(str) ==
    IF BracketStarts(str) = {} THEN NoMatch
    ELSE LET i == CHOOSE i \in BracketStarts(str) : \A h \in BracketStarts(str) : i <= h
         IN Match(SubSeq(str, i + 1, FirstClose(str, i) - 1))

\* re.match(r'^([a-zA-Z0-9_-]+):', s)
Colon == 58
ConventionalChars == (97..122) \cup (65..90) \cup (48..57) \cup {95, 45}
ConventionalMatch(str) ==
    LET ends == {j \in 1..(Len(str) - 1) :
                    /\ \A h \in 1..j : str[h] \in ConventionalChars
                    /\ str[j + 1] = Colon}
    IN IF ends = {} THEN NoMatch
       ELSE Match(SubSeq(str, 1, CHOOSE j \in ends : TRUE))

\* re.match(r'^([\U0001F300-\U0001F9FF])', s)
EmojiFirst == 127744
EmojiLast == 129535
EmojiMatch(str) ==
    IF str # <<>> /\ str[1] >= EmojiFirst /\ str[1] <= EmojiLast
    THEN Match(<<str[1]>>)
    ELSE NoMatch

\* str.startswith
StartsWith(str, prefix) ==
    Len(str) >= Len(prefix) /\ SubSeq(str, 1, Len(prefix)) = prefix

MergePrefix == <<77, 101, 114, 103, 101, 32>>   \* 'Merge '

\* re.search(r'\bWIP\b', s, re.IGNORECASE)
WordChars == (97..122) \cup (65..90) \cup (48..57) \cup {95}
WipWord == <<119, 105, 112>>   \* 'wip'
WipSearch(str) ==
    \E i \in 1..(Len(str) - 2) :
       /\ Lower(SubSeq(str, i, i + 2)) = WipWord
       /\ i = 1 \/ str[i - 1] \notin WordChars
       /\ i + 2 = Len(str) \/ str[i + 3] \notin WordChars

\* confidences of parse_tag, in hundredths
Conf(tag, hundredths) == [tag |-> tag, confidence |-> hundredths]

\* (mutant of ParseTag: the leading emoji is tried before the bracketed token)
ParseTagEmojiFirst(commit_message, map) ==
    LET bracket_match == BracketMatch(commit_message)
        conventional_match == ConventionalMatch(commit_message)
        emoji_match == EmojiMatch(commit_message)
    IN IF emoji_match.matched /\ DictGet(map, emoji_match.group) # None
       THEN Conf(DictGet(map, emoji_match.group), 95)
       ELSE IF bracket_match.matched /\ DictGet(map, Strip(bracket_match.group)) # None
       THEN Conf(DictGet(map, Strip(bracket_match.group)), 100)
       ELSE IF conventional_match.matched
               /\ DictGet(map, Strip(conventional_match.group)) # None
       THEN Conf(DictGet(map, Strip(conventional_match.group)), 100)
       ELSE IF StartsWith(commit_message, MergePrefix) THEN Conf("MERGE", 100)
       ELSE IF WipSearch(commit_message) THEN Conf("WIP", 90)
       ELSE Conf(None, 0)

\* (mutant of ParseTag: the WIP word is looked for before the 'Merge ' prefix)
ParseTagWipFirst(commit_message, map) ==
    LET bracket_match == BracketMatch(commit_message)
        conventional_match == ConventionalMatch(commit_message)
        emoji_match == EmojiMatch(commit_message)
    IN IF bracket_match.matched /\ DictGet(map, Strip(bracket_match.group)) # None
       THEN Conf(DictGet(map, Strip(bracket_match.group)), 100)
       ELSE IF conventional_match.matched
               /\ DictGet(map, Strip(conventional_match.group)) # None
       THEN Conf(DictGet(map, Strip(conventional_match.group)), 100)
       ELSE IF emoji_match.matched /\ DictGet(map, emoji_match.group) # None
       THEN Conf(DictGet(map, emoji_match.group), 95)
       ELSE IF WipSearch(commit_message) THEN Conf("WIP", 90)
       ELSE IF StartsWith(commit_message, MergePrefix) THEN Conf("MERGE", 100)
       ELSE Conf(None, 0)

\* TagSystem.parse_tag, after its call of _build_alias_map
ParseTag(commit_message, map) ==
    LET bracket_match == BracketMatch(commit_message)
        conventional_match == ConventionalMatch(commit_message)
        emoji_match == EmojiMatch(commit_message)
    IN IF bracket_match.matched /\ DictGet(map, Strip(bracket_match.group)) # None
       THEN Conf(DictGet(map, Strip(bracket_match.group)), 100)
       ELSE IF conventional_match.matched
               /\ DictGet(map, Strip(conventional_match.group)) # None
       THEN Conf(DictGet(map, Strip(conventional_match.group)), 100)
       ELSE IF emoji_match.matched /\ DictGet(map, emoji_match.group) # None
       THEN Conf(DictGet(map, emoji_match.group), 95)
       ELSE IF StartsWith(commit_message, MergePrefix) THEN Conf("MERGE", 100)
       ELSE IF WipSearch(commit_message) THEN Conf("WIP", 90)
       ELSE Conf(None, 0)

\* the call TagSystem.parse_tag(message)
CallParseTag ==
    /\ ALIAS_MAP' = _build_alias_map(ALIAS_MAP)
    /\ parsed' = ParseTag(message, ALIAS_MAP')
    /\ UNCHANGED message
    /\ UNCHANGED <<clientVars, otherVars>>

\* the pieces the commit messages are made of
Vocabulary ==
    { <<91>>,                                   \* '['
      <<93>>,                                   \* ']'
      <<58>>,                                   \* ':'
      <<32>>,                                   \* ' '
      <<70, 73, 88>>,                           \* 'FIX'
      <<70, 105, 120>>,                         \* 'Fix'
      <<70, 101, 97, 116, 117, 114, 101>>,      \* 'Feature'
      <<77, 101, 114, 103, 101, 32>>,           \* 'Merge '
      <<119, 105, 112>>,                        \* 'wip'
      <<120>>,                                  \* 'x'
      <<128027>>,                               \* U+1F41B, an alias of FIX
      <<10024>>,                                \* U+2728, an alias of FEAT
      <<128269>> }                              \* U+1F50D, no alias

RECURSIVE Flatten(_)
Flatten(chunks) == IF chunks = <<>> THEN <<>> ELSE Head(chunks) \o Flatten(Tail(chunks))

Messages == {Flatten(chunks) : chunks \in SeqsUpTo(Vocabulary, MaxChunks)}

InitTag ==
    /\ client = NoClient
    /\ cache = [k \in CacheKeys |-> NoRow]
    /\ now = 0
    /\ run = IdleRun
    /\ last = NoCall
    /\ prev = NoCall
    /\ calls = 0
    /\ faults = 0
    /\ message \in Messages
    /\ ALIAS_MAP = <<>>
    /\ parsed = NoParse
    /\ call = NoArgs /\ ret = NoReturn /\ threads = <<>>

NextTag == CallParseTag

SpecTag == InitTag /\ [][NextTag]_vars

(***************************************************************************)
(* SpecFetch: _fetch_commits_from_api alone.  Init is its entry, for every *)
(* repository and window (get_repo has returned); the actions are its      *)
(* upstream calls.                                                         *)
(***************************************************************************)
InitFetch ==
    /\ \E repo \in Repos :
          client = [status |-> "ready", token |-> "tok", repositories |-> <<repo>>]
    /\ cache = [k \in CacheKeys |-> NoRow]
    /\ now = 0
    /\ \E s \in Sinces, u \in Untils, uc \in BOOLEAN, m \in MaxAges :
          run = [IdleRun EXCEPT !.pc = "get_branches", !.i = 1, !.since = s,
                                !.until = u, !.use_cache = uc, !.max_age = m,
                                !.net = 1]
    /\ last = NoCall
    /\ prev = NoCall
    /\ calls = 1
    /\ faults = 0
    /\ message = <<>>
    /\ ALIAS_MAP = <<>>
    /\ parsed = NoParse
    /\ call = NoArgs /\ ret = NoReturn /\ threads = <<>>

NextFetch ==
    \/ \E o \in Outcomes, order \in SeqsUpTo(UNION {UpstreamBranches(r) : r \in Repos}, 2) :
          GetBranches(o, order)
    \/ \E o \in Outcomes : GetRateLimit(o)
    \/ \E o \in Outcomes : ListBranch(o)
    \/ \E o \in Outcomes : FetchStats(o)
    \/ \E o \in Outcomes : FetchFiles(o)

SpecFetch == InitFetch /\ [][NextFetch]_vars

(***************************************************************************)
(* Claims about the ingestion client.                                      *)
(***************************************************************************)
Finished == run.pc = "idle" /\ last.outcome # "none"

SameArguments(c1, c2) ==
    /\ c1.repositories = c2.repositories
    /\ c1.since = c2.since /\ c1.until = c2.until
    /\ c1.use_cache = c2.use_cache /\ c1.max_age = c2.max_age

NoUpstreamFailure(c) == c.repoFail = {} /\ c.branchFail = {} /\ c.statsFail = {}

\* number of records of the list for commit sha of repository repo
Occurrences(list, repo, sha) ==
    Cardinality({k \in 1..Len(list) : list[k].sha = sha /\ list[k].repository = repo})

BranchesListing(listed, i, sha) == {b \in {"main", "dev"} : <<i, b, sha>> \in listed}

Shas == {"a", "b", "c"}

\* C1: a second get_commits call with the arguments of the first, made within
\* the cache max age of a first call that fetched every repository from
\* upstream without any failure, makes no upstream call (so none that fails)
\* and returns the list the first call returned.
C1_CacheIdempotence ==
    (/\ Finished
     /\ prev.outcome = "returned"
     /\ SameArguments(prev, last)
     /\ last.use_cache
     /\ NoUpstreamFailure(prev)
     /\ prev.hits = {}
     /\ NoUpstreamFailure(last)
     /\ last.time - prev.time <= last.max_age)
    => (/\ last.outcome = "returned"
        /\ last.net = 0
        /\ last.result = prev.result)

\* C2: a commit identifier returned by the listings of two or more branches of
\* one repository has exactly one record in the list the fetch builds and in
\* the list it returns, whatever the order of the branches.
C2_BranchDedup ==
    /\ run.pc # "idle" =>
          \A sha \in Shas :
             Cardinality(BranchesListing(run.listed, run.i, sha)) >= 2 =>
                Occurrences(DictValues(run.commits_by_sha),
                            client.repositories[run.i], sha) = 1
    /\ (Finished /\ last.outcome = "returned") =>
          \A sha \in Shas :
             Cardinality(BranchesListing(last.listed, 1, sha)) >= 2 =>
                Occurrences(last.result, last.repositories[1], sha) = 1

\* C2 witness: a fetch has returned in which both branches listed commit "b",
\* dev before main
C2_Witness ==
    /\ Finished /\ last.outcome = "returned"
    /\ BranchesListing(last.listed, 1, "b") = {"main", "dev"}
    /\ Occurrences(last.result, "r1", "b") = 1
    /\ \E k \in 1..Len(last.result) :
          last.result[k].sha = "c" /\ k < Len(last.result)

\* C3: whenever an upstream call of a get_commits call signals rate-limit
\* exhaustion, the call ends by raising a rate-limit error to its caller.
C3_RateLimitPropagates ==
    (Finished /\ last.rl) => (last.outcome = "raised" /\ last.error = "rl")

\* C4: when the fetch of a repository fails for a reason that is not a rate
\* limit, get_commits still returns, and its list holds the commits listed
\* for every other repository.
C4_RepoFailureIsolated ==
    (Finished /\ \E f \in last.repoFail : f[2] # "rl")
    => (/\ last.outcome = "returned"
        /\ \A e \in last.listed :
              (\A f \in last.repoFail : f[1] # e[1]) =>
                 Occurrences(last.result, last.repositories[e[1]], e[3]) >= 1)

\* C5: when the commit listing of a branch fails, the repository fetch does not
\* fail, get_commits returns, and its list holds the commits listed by the
\* other branches.
C5_BranchFailureIsolated ==
    (Finished /\ last.branchFail # {})
    => (/\ last.outcome = "returned"
        /\ \A f \in last.branchFail : \A g \in last.repoFail : g[1] # f[1]
        /\ \A e \in last.listed :
              Occurrences(last.result, last.repositories[e[1]], e[3]) >= 1)

\* C6: in the list get_commits returns, every (repository, commit identifier)
\* pair occurs at most once.
C6_StreamUnique ==
    (Finished /\ last.outcome = "returned") =>
       \A k1, k2 \in 1..Len(last.result) :
          (/\ last.result[k1].repository = last.result[k2].repository
           /\ last.result[k1].sha = last.result[k2].sha) => k1 = k2

\* C7: a client without credentials is not constructed, and a get_commits call
\* on a client with an empty repository list ends in an error before any
\* upstream call.
C7_ConfigErrorsFatal ==
    /\ client.status = "ready" => client.token # None
    /\ (Finished /\ last.repositories = <<>>) =>
          (last.outcome = "raised" /\ last.net = 0)

(***************************************************************************)
(* Claims about TagSystem.parse_tag.                                       *)
(***************************************************************************)
\* parse_tag has been called on the message
ParseDone == ALIAS_MAP # <<>>

\* the tags whose canonical name or one of whose aliases equals the token,
\* ignoring letter case
TagsNamed(token) ==
    {TAGS[t].name : t \in {t \in 1..Len(TAGS) :
        \/ Lower(TAGS[t].chars) = Lower(token)
        \/ \E a \in 1..Len(TAGS[t].aliases) : Lower(TAGS[t].aliases[a]) = Lower(token)}}

\* the token of a match resolves through the alias index
Resolves(match, token) == match.matched /\ DictHas(ALIAS_MAP, token)

BracketToken == Strip(BracketMatch(message).group)
ConventionalToken == Strip(ConventionalMatch(message).group)
EmojiToken == EmojiMatch(message).group
BracketResolves == Resolves(BracketMatch(message), BracketToken)
ConventionalResolves == Resolves(ConventionalMatch(message), ConventionalToken)
EmojiResolves == Resolves(EmojiMatch(message), EmojiToken)

\* C8: for every message whose first bracketed token equals, ignoring letter
\* case, a canonical tag name or a declared alias, parse_tag returns that
\* tag with confidence 1.0.
C8_BracketCaseInsensitive ==
    (ParseDone /\ BracketMatch(message).matched) =>
       \A tag \in TagsNamed(BracketToken) : parsed = Conf(tag, 100)

\* C9 as stated: for every message that begins with "Merge ", parse_tag
\* returns MERGE with confidence 1.0, whatever else the message contains.
C9_MergeRegardless ==
    (ParseDone /\ StartsWith(message, MergePrefix)) => parsed = Conf("MERGE", 100)

\* C9 amended: for every message that begins with "Merge " and whose first
\* bracketed token, if there is one, does not resolve through the alias
\* index, parse_tag returns MERGE with confidence 1.0, also when the word
\* WIP stands later in the message.
C9_MergeUnlessBracketResolves ==
    (ParseDone /\ StartsWith(message, MergePrefix) /\ ~BracketResolves)
    => parsed = Conf("MERGE", 100)

\* C9 witness: parse_tag returned MERGE for a message that begins with
\* "Merge " and holds the standalone word wip
C9_Witness ==
    /\ ParseDone
    /\ StartsWith(message, MergePrefix)
    /\ WipSearch(message)
    /\ ~BracketResolves
    /\ parsed = Conf("MERGE", 100)

\* C10: parse_tag returns the result of the first strategy that resolves, in
\* the order bracketed token (1.0), conventional prefix (1.0), leading emoji
\* (0.95), "Merge " prefix (1.0), standalone WIP (0.9); a token that is present
\* without resolving falls through; the tag is none exactly when the
\* confidence is 0.
C10_ResolutionOrder ==
    ParseDone =>
       /\ BracketResolves => parsed = Conf(DictGet(ALIAS_MAP, BracketToken), 100)
       /\ (~BracketResolves /\ ConventionalResolves)
             => parsed = Conf(DictGet(ALIAS_MAP, ConventionalToken), 100)
       /\ (~BracketResolves /\ ~ConventionalResolves /\ EmojiResolves)
             => parsed = Conf(DictGet(ALIAS_MAP, EmojiToken), 95)
       /\ (/\ ~BracketResolves /\ ~ConventionalResolves /\ ~EmojiResolves
           /\ StartsWith(message, MergePrefix))
             => parsed = Conf("MERGE", 100)
       /\ (/\ ~BracketResolves /\ ~ConventionalResolves /\ ~EmojiResolves
           /\ ~StartsWith(message, MergePrefix) /\ WipSearch(message))
             => parsed = Conf("WIP", 90)
       /\ (/\ ~BracketResolves /\ ~ConventionalResolves /\ ~EmojiResolves
           /\ ~StartsWith(message, MergePrefix) /\ ~WipSearch(message))
             => parsed = Conf(None, 0)
       /\ parsed.tag = None <=> parsed.confidence = 0

\* C10 witness: parse_tag was called on a message whose bracketed token does
\* not resolve and which holds the standalone word wip further on, and
\* returned WIP with confidence 0.9
C10_Witness ==
    /\ ParseDone
    /\ BracketMatch(message).matched /\ ~BracketResolves
    /\ ~StartsWith(message, MergePrefix)
    /\ parsed = Conf("WIP", 90)

\* the aliases of a tag that are emoji: they do not start with an ASCII character
EmojiAliases(config) ==
    {config.aliases[a] : a \in {a \in 1..Len(config.aliases) : config.aliases[a][1] > 127}}

\* C11: for every emoji declared as an alias of a tag, a message that starts
\* with that emoji, and in which neither the bracketed token nor the
\* conventional prefix resolves, is resolved to that tag with confidence 0.95.
C11_LeadingEmoji ==
    (ParseDone /\ ~BracketResolves /\ ~ConventionalResolves) =>
       \A t \in 1..Len(TAGS) : \A emoji \in EmojiAliases(TAGS[t]) :
          StartsWith(message, emoji) => parsed = Conf(TAGS[t].name, 95)

(***************************************************************************)
(* CommitCategorizer (auto_categorizer.py).  Confidences are floats in the *)
(* code; here they are integers in units of 1/One, which holds every       *)
(* confidence the stages compute for file lists of up to six files.        *)
(* CategorizationResult.reasoning, a formatted text, is left out.          *)
(***************************************************************************)
One == 14400
Hundredth == One \div 100

\* a CategorizationResult, or None
NoResult == [is_none |-> TRUE, tag |-> None, confidence |-> 0, method |-> None]
CategorizationResult(tag, confidence, method) ==
    [is_none |-> FALSE, tag |-> tag, confidence |-> confidence, method |-> method]

Min(a, b) == IF a <= b THEN a ELSE b
Max(a, b) == IF a >= b THEN a ELSE b

\* `sub in str`
Contains(str, sub) ==
    \E i \in 1..(Len(str) - Len(sub) + 1) : SubSeq(str, i, i + Len(sub) - 1) = sub

\* a match of sub that ends where str ends
EndsWith(str, sub) ==
    Len(str) >= Len(sub) /\ SubSeq(str, Len(str) - Len(sub) + 1, Len(str)) = sub

\* \s+ : the first position from i on that holds no whitespace
RECURSIVE SkipSpace(_, _)
SkipSpace(str, i) ==
    IF i <= Len(str) /\ str[i] \in Whitespace THEN SkipSpace(str, i + 1) ELSE i

\* the words of one alternative, separated by \s+, matched from position i
\* ignoring case: the position of the last character matched, or 0
RECURSIVE WordsAt(_, _, _)
WordsAt(str, i, words) ==
    LET e == i + Len(Head(words)) - 1
    IN IF e > Len(str) \/ Lower(SubSeq(str, i, e)) # Lower(Head(words)) THEN 0
       ELSE IF Len(words) = 1 THEN e
       ELSE LET j == SkipSpace(str, e + 1)
            IN IF j = e + 1 \/ j > Len(str) THEN 0 ELSE WordsAt(str, j, Tail(words))

\* re.search(r'\b(a|b|...)\b', str, re.IGNORECASE): pattern is the sequence of
\* the alternatives
KeywordSearch(pattern, str) ==
    \E a \in 1..Len(pattern) : \E i \in 1..Len(str) :
       /\ i = 1 \/ str[i - 1] \notin WordChars
       /\ LET e == WordsAt(str, i, pattern[a])
          IN e > 0 /\ (e = Len(str) \/ str[e + 1] \notin WordChars)

\* CommitCategorizer.KEYWORD_RULES, in the order of the dict
KEYWORD_RULES ==
    <<
      [tag |-> "FIX", patterns |-> <<
        \* r'\b(fix|bug|crash|error|resolve|patch|hotfix)\b'
        <<
          <<<<102, 105, 120>>>>,    \* fix
          <<<<98, 117, 103>>>>,    \* bug
          <<<<99, 114, 97, 115, 104>>>>,    \* crash
          <<<<101, 114, 114, 111, 114>>>>,    \* error
          <<<<114, 101, 115, 111, 108, 118, 101>>>>,    \* resolve
          <<<<112, 97, 116, 99, 104>>>>,    \* patch
          <<<<104, 111, 116, 102, 105, 120>>>>    \* hotfix
        >>,
        \* r'\b(null\s+pointer|memory\s+leak|race\s+condition)\b'
        <<
          <<<<110, 117, 108, 108>>, <<112, 111, 105, 110, 116, 101, 114>>>>,    \* null\s+pointer
          <<<<109, 101, 109, 111, 114, 121>>, <<108, 101, 97, 107>>>>,    \* memory\s+leak
          <<<<114, 97, 99, 101>>, <<99, 111, 110, 100, 105, 116, 105, 111, 110>>>>    \* race\s+condition
        >>,
        \* r'\b(broken|failing|failed)\b'
        <<
          <<<<98, 114, 111, 107, 101, 110>>>>,    \* broken
          <<<<102, 97, 105, 108, 105, 110, 103>>>>,    \* failing
          <<<<102, 97, 105, 108, 101, 100>>>>    \* failed
        >>
      >>],
      [tag |-> "FEAT", patterns |-> <<
        \* r'\b(add|implement|create|new|feature)\b'
        <<
          <<<<97, 100, 100>>>>,    \* add
          <<<<105, 109, 112, 108, 101, 109, 101, 110, 116>>>>,    \* implement
          <<<<99, 114, 101, 97, 116, 101>>>>,    \* create
          <<<<110, 101, 119>>>>,    \* new
          <<<<102, 101, 97, 116, 117, 114, 101>>>>    \* feature
        >>,
        \* r'\b(introduce|support\s+for)\b'
        <<
          <<<<105, 110, 116, 114, 111, 100, 117, 99, 101>>>>,    \* introduce
          <<<<115, 117, 112, 112, 111, 114, 116>>, <<102, 111, 114>>>>    \* support\s+for
        >>
      >>],
      [tag |-> "REFACTOR", patterns |-> <<
        \* r'\b(refactor|reorganize|restructure|simplify|cleanup|clean\s+up)\b'
        <<
          <<<<114, 101, 102, 97, 99, 116, 111, 114>>>>,    \* refactor
          <<<<114, 101, 111, 114, 103, 97, 110, 105, 122, 101>>>>,    \* reorganize
          <<<<114, 101, 115, 116, 114, 117, 99, 116, 117, 114, 101>>>>,    \* restructure
          <<<<115, 105, 109, 112, 108, 105, 102, 121>>>>,    \* simplify
          <<<<99, 108, 101, 97, 110, 117, 112>>>>,    \* cleanup
          <<<<99, 108, 101, 97, 110>>, <<117, 112>>>>    \* clean\s+up
        >>,
        \* r'\b(improve\s+code|code\s+quality)\b'
        <<
          <<<<105, 109, 112, 114, 111, 118, 101>>, <<99, 111, 100, 101>>>>,    \* improve\s+code
          <<<<99, 111, 100, 101>>, <<113, 117, 97, 108, 105, 116, 121>>>>    \* code\s+quality
        >>
      >>],
      [tag |-> "DOC", patterns |-> <<
        \* r'\b(doc|documentation|readme|comment|javadoc)\b'
        <<
          <<<<100, 111, 99>>>>,    \* doc
          <<<<100, 111, 99, 117, 109, 101, 110, 116, 97, 116, 105, 111, 110>>>>,    \* documentation
          <<<<114, 101, 97, 100, 109, 101>>>>,    \* readme
          <<<<99, 111, 109, 109, 101, 110, 116>>>>,    \* comment
          <<<<106, 97, 118, 97, 100, 111, 99>>>>    \* javadoc
        >>,
        \* r'\b(update\s+docs|add\s+docs)\b'
        <<
          <<<<117, 112, 100, 97, 116, 101>>, <<100, 111, 99, 115>>>>,    \* update\s+docs
          <<<<97, 100, 100>>, <<100, 111, 99, 115>>>>    \* add\s+docs
        >>
      >>],
      [tag |-> "TEST", patterns |-> <<
        \* r'\b(test|spec|coverage|unit\s+test|integration\s+test)\b'
        <<
          <<<<116, 101, 115, 116>>>>,    \* test
          <<<<115, 112, 101, 99>>>>,    \* spec
          <<<<99, 111, 118, 101, 114, 97, 103, 101>>>>,    \* coverage
          <<<<117, 110, 105, 116>>, <<116, 101, 115, 116>>>>,    \* unit\s+test
          <<<<105, 110, 116, 101, 103, 114, 97, 116, 105, 111, 110>>, <<116, 101, 115, 116>>>>    \* integration\s+test
        >>
      >>],
      [tag |-> "CONFIG", patterns |-> <<
        \* r'\b(config|configuration|env|environment|settings)\b'
        <<
          <<<<99, 111, 110, 102, 105, 103>>>>,    \* config
          <<<<99, 111, 110, 102, 105, 103, 117, 114, 97, 116, 105, 111, 110>>>>,    \* configuration
          <<<<101, 110, 118>>>>,    \* env
          <<<<101, 110, 118, 105, 114, 111, 110, 109, 101, 110, 116>>>>,    \* environment
          <<<<115, 101, 116, 116, 105, 110, 103, 115>>>>    \* settings
        >>,
        \* r'\b(webpack|babel|eslint|prettierrc)\b'
        <<
          <<<<119, 101, 98, 112, 97, 99, 107>>>>,    \* webpack
          <<<<98, 97, 98, 101, 108>>>>,    \* babel
          <<<<101, 115, 108, 105, 110, 116>>>>,    \* eslint
          <<<<112, 114, 101, 116, 116, 105, 101, 114, 114, 99>>>>    \* prettierrc
        >>
      >>],
      [tag |-> "I18N", patterns |-> <<
        \* r'\b(translation|locale|i18n|internationalization)\b'
        <<
          <<<<116, 114, 97, 110, 115, 108, 97, 116, 105, 111, 110>>>>,    \* translation
          <<<<108, 111, 99, 97, 108, 101>>>>,    \* locale
          <<<<105, 49, 56, 110>>>>,    \* i18n
          <<<<105, 110, 116, 101, 114, 110, 97, 116, 105, 111, 110, 97, 108, 105, 122, 97, 116, 105, 111, 110>>>>    \* internationalization
        >>,
        \* r'\b(language\s+file|localization)\b'
        <<
          <<<<108, 97, 110, 103, 117, 97, 103, 101>>, <<102, 105, 108, 101>>>>,    \* language\s+file
          <<<<108, 111, 99, 97, 108, 105, 122, 97, 116, 105, 111, 110>>>>    \* localization
        >>
      >>],
      [tag |-> "PERF", patterns |-> <<
        \* r'\b(performance|optimize|optimization|speed|cache|caching)\b'
        <<
          <<<<112, 101, 114, 102, 111, 114, 109, 97, 110, 99, 101>>>>,    \* performance
          <<<<111, 112, 116, 105, 109, 105, 122, 101>>>>,    \* optimize
          <<<<111, 112, 116, 105, 109, 105, 122, 97, 116, 105, 111, 110>>>>,    \* optimization
          <<<<115, 112, 101, 101, 100>>>>,    \* speed
          <<<<99, 97, 99, 104, 101>>>>,    \* cache
          <<<<99, 97, 99, 104, 105, 110, 103>>>>    \* caching
        >>,
        \* r'\b(faster|improve\s+performance)\b'
        <<
          <<<<102, 97, 115, 116, 101, 114>>>>,    \* faster
          <<<<105, 109, 112, 114, 111, 118, 101>>, <<112, 101, 114, 102, 111, 114, 109, 97, 110, 99, 101>>>>    \* improve\s+performance
        >>
      >>],
      [tag |-> "SECURITY", patterns |-> <<
        \* r'\b(security|vulnerability|xss|csrf|sql\s+injection)\b'
        <<
          <<<<115, 101, 99, 117, 114, 105, 116, 121>>>>,    \* security
          <<<<118, 117, 108, 110, 101, 114, 97, 98, 105, 108, 105, 116, 121>>>>,    \* vulnerability
          <<<<120, 115, 115>>>>,    \* xss
          <<<<99, 115, 114, 102>>>>,    \* csrf
          <<<<115, 113, 108>>, <<105, 110, 106, 101, 99, 116, 105, 111, 110>>>>    \* sql\s+injection
        >>,
        \* r'\b(auth|authentication|authorization|permission)\b'
        <<
          <<<<97, 117, 116, 104>>>>,    \* auth
          <<<<97, 117, 116, 104, 101, 110, 116, 105, 99, 97, 116, 105, 111, 110>>>>,    \* authentication
          <<<<97, 117, 116, 104, 111, 114, 105, 122, 97, 116, 105, 111, 110>>>>,    \* authorization
          <<<<112, 101, 114, 109, 105, 115, 115, 105, 111, 110>>>>    \* permission
        >>,
        \* r'\b(sanitize|escape|validate\s+input)\b'
        <<
          <<<<115, 97, 110, 105, 116, 105, 122, 101>>>>,    \* sanitize
          <<<<101, 115, 99, 97, 112, 101>>>>,    \* escape
          <<<<118, 97, 108, 105, 100, 97, 116, 101>>, <<105, 110, 112, 117, 116>>>>    \* validate\s+input
        >>
      >>],
      [tag |-> "CHORE", patterns |-> <<
        \* r'\b(chore|maintenance|housekeeping|dependencies|deps)\b'
        <<
          <<<<99, 104, 111, 114, 101>>>>,    \* chore
          <<<<109, 97, 105, 110, 116, 101, 110, 97, 110, 99, 101>>>>,    \* maintenance
          <<<<104, 111, 117, 115, 101, 107, 101, 101, 112, 105, 110, 103>>>>,    \* housekeeping
          <<<<100, 101, 112, 101, 110, 100, 101, 110, 99, 105, 101, 115>>>>,    \* dependencies
          <<<<100, 101, 112, 115>>>>    \* deps
        >>,
        \* r'\b(update\s+packages|bump\s+version)\b'
        <<
          <<<<117, 112, 100, 97, 116, 101>>, <<112, 97, 99, 107, 97, 103, 101, 115>>>>,    \* update\s+packages
          <<<<98, 117, 109, 112>>, <<118, 101, 114, 115, 105, 111, 110>>>>    \* bump\s+version
        >>
      >>],
      [tag |-> "DEPLOY", patterns |-> <<
        \* r'\b(deploy|deployment|release|publish)\b'
        <<
          <<<<100, 101, 112, 108, 111, 121>>>>,    \* deploy
          <<<<100, 101, 112, 108, 111, 121, 109, 101, 110, 116>>>>,    \* deployment
          <<<<114, 101, 108, 101, 97, 115, 101>>>>,    \* release
          <<<<112, 117, 98, 108, 105, 115, 104>>>>    \* publish
        >>,
        \* r'\b(production|staging)\b'
        <<
          <<<<112, 114, 111, 100, 117, 99, 116, 105, 111, 110>>>>,    \* production
          <<<<115, 116, 97, 103, 105, 110, 103>>>>    \* staging
        >>
      >>],
      [tag |-> "WIP", patterns |-> <<
        \* r'\bWIP\b'
        <<
          <<<<87, 73, 80>>>>    \* WIP
        >>,
        \* r'\b(work\s+in\s+progress|incomplete|ongoing)\b'
        <<
          <<<<119, 111, 114, 107>>, <<105, 110>>, <<112, 114, 111, 103, 114, 101, 115, 115>>>>,    \* work\s+in\s+progress
          <<<<105, 110, 99, 111, 109, 112, 108, 101, 116, 101>>>>,    \* incomplete
          <<<<111, 110, 103, 111, 105, 110, 103>>>>    \* ongoing
        >>
      >>],
      [tag |-> "REVERT", patterns |-> <<
        \* r'\b(revert|rollback|undo)\b'
        <<
          <<<<114, 101, 118, 101, 114, 116>>>>,    \* revert
          <<<<114, 111, 108, 108, 98, 97, 99, 107>>>>,    \* rollback
          <<<<117, 110, 100, 111>>>>    \* undo
        >>
      >>]
    >>

\* CommitCategorizer.FILE_PATH_RULES, in the order of the dict; a pattern is the
\* sequence of the literal texts it matches, each anywhere or at the end ($)
FILE_PATH_RULES ==
    <<
      [tag |-> "TEST", patterns |-> <<
        \* r'tests?/'
        <<
          [literal |-> <<116, 101, 115, 116, 115, 47>>, at_end |-> FALSE],    \* tests/
          [literal |-> <<116, 101, 115, 116, 47>>, at_end |-> FALSE]    \* test/
        >>,
        \* r'spec/'
        <<
          [literal |-> <<115, 112, 101, 99, 47>>, at_end |-> FALSE]    \* spec/
        >>,
        \* r'\.test\.(js|ts|py)$'
        <<
          [literal |-> <<46, 116, 101, 115, 116, 46, 106, 115>>, at_end |-> TRUE],    \* .test.js$
          [literal |-> <<46, 116, 101, 115, 116, 46, 116, 115>>, at_end |-> TRUE],    \* .test.ts$
          [literal |-> <<46, 116, 101, 115, 116, 46, 112, 121>>, at_end |-> TRUE]    \* .test.py$
        >>,
        \* r'\.spec\.(js|ts)$'
        <<
          [literal |-> <<46, 115, 112, 101, 99, 46, 106, 115>>, at_end |-> TRUE],    \* .spec.js$
          [literal |-> <<46, 115, 112, 101, 99, 46, 116, 115>>, at_end |-> TRUE]    \* .spec.ts$
        >>
      >>],
      [tag |-> "DOC", patterns |-> <<
        \* r'docs?/'
        <<
          [literal |-> <<100, 111, 99, 115, 47>>, at_end |-> FALSE],    \* docs/
          [literal |-> <<100, 111, 99, 47>>, at_end |-> FALSE]    \* doc/
        >>,
        \* r'README'
        <<
          [literal |-> <<82, 69, 65, 68, 77, 69>>, at_end |-> FALSE]    \* README
        >>,
        \* r'\.md$'
        <<
          [literal |-> <<46, 109, 100>>, at_end |-> TRUE]    \* .md$
        >>,
        \* r'CHANGELOG'
        <<
          [literal |-> <<67, 72, 65, 78, 71, 69, 76, 79, 71>>, at_end |-> FALSE]    \* CHANGELOG
        >>
      >>],
      [tag |-> "CONFIG", patterns |-> <<
        \* r'config/'
        <<
          [literal |-> <<99, 111, 110, 102, 105, 103, 47>>, at_end |-> FALSE]    \* config/
        >>,
        \* r'\.env'
        <<
          [literal |-> <<46, 101, 110, 118>>, at_end |-> FALSE]    \* .env
        >>,
        \* r'webpack\.config'
        <<
          [literal |-> <<119, 101, 98, 112, 97, 99, 107, 46, 99, 111, 110, 102, 105, 103>>, at_end |-> FALSE]    \* webpack.config
        >>,
        \* r'\.yml$'
        <<
          [literal |-> <<46, 121, 109, 108>>, at_end |-> TRUE]    \* .yml$
        >>,
        \* r'\.yaml$'
        <<
          [literal |-> <<46, 121, 97, 109, 108>>, at_end |-> TRUE]    \* .yaml$
        >>
      >>],
      [tag |-> "I18N", patterns |-> <<
        \* r'lang/'
        <<
          [literal |-> <<108, 97, 110, 103, 47>>, at_end |-> FALSE]    \* lang/
        >>,
        \* r'locale/'
        <<
          [literal |-> <<108, 111, 99, 97, 108, 101, 47>>, at_end |-> FALSE]    \* locale/
        >>,
        \* r'translations?/'
        <<
          [literal |-> <<116, 114, 97, 110, 115, 108, 97, 116, 105, 111, 110, 115, 47>>, at_end |-> FALSE],    \* translations/
          [literal |-> <<116, 114, 97, 110, 115, 108, 97, 116, 105, 111, 110, 47>>, at_end |-> FALSE]    \* translation/
        >>,
        \* r'i18n/'
        <<
          [literal |-> <<105, 49, 56, 110, 47>>, at_end |-> FALSE]    \* i18n/
        >>
      >>],
      [tag |-> "DEPLOY", patterns |-> <<
        \* r'deploy/'
        <<
          [literal |-> <<100, 101, 112, 108, 111, 121, 47>>, at_end |-> FALSE]    \* deploy/
        >>,
        \* r'\.github/workflows/'
        <<
          [literal |-> <<46, 103, 105, 116, 104, 117, 98, 47, 119, 111, 114, 107, 102, 108, 111, 119, 115, 47>>, at_end |-> FALSE]    \* .github/workflows/
        >>,
        \* r'Dockerfile'
        <<
          [literal |-> <<68, 111, 99, 107, 101, 114, 102, 105, 108, 101>>, at_end |-> FALSE]    \* Dockerfile
        >>,
        \* r'docker-compose'
        <<
          [literal |-> <<100, 111, 99, 107, 101, 114, 45, 99, 111, 109, 112, 111, 115, 101>>, at_end |-> FALSE]    \* docker-compose
        >>
      >>]
    >>

\* (mutant of ArgMax: of equal scores the last one wins)
ArgMaxLast(scores) ==
    LET best == CHOOSE k \in 1..Len(scores) :
                   /\ \A h \in 1..Len(scores) : scores[h].value <= scores[k].value
                   /\ \A h \in (k + 1)..Len(scores) : scores[h].value < scores[k].value
    IN scores[best].key

\* max(scores, key=...): the first key, in the order of the dict, whose score
\* is the greatest.  scores is a sequence of [key, value]
ArgMax(scores) ==
    LET best == CHOOSE k \in 1..Len(scores) :
                   /\ \A h \in 1..Len(scores) : scores[h].value <= scores[k].value
                   /\ \A h \in 1..(k - 1) : scores[h].value < scores[k].value
    IN scores[best].key

\* the entries of a rule table that scored, in the order of the table
RECURSIVE ScoresFrom(_, _, _)
ScoresFrom(rules, score, t) ==
    IF t > Len(rules) THEN <<>>
    ELSE (IF score[t] > 0 THEN <<[key |-> rules[t].tag, value |-> score[t]]>> ELSE <<>>)
         \o ScoresFrom(rules, score, t + 1)

\* CommitCategorizer._match_keywords
_match_keywords(msg) ==
    LET message_lower == Lower(msg)
        score == [t \in 1..Len(KEYWORD_RULES) |->
                    Cardinality({p \in 1..Len(KEYWORD_RULES[t].patterns) :
                        KeywordSearch(KEYWORD_RULES[t].patterns[p], message_lower)})]
        scores == ScoresFrom(KEYWORD_RULES, score, 1)
    IN IF scores = <<>> THEN NoResult
       ELSE LET best_tag == ArgMax(scores)
                best_score == DictGet(scores, best_tag)
                confidence == Min(60 * Hundredth + best_score * 15 * Hundredth, 95 * Hundredth)
            IN CategorizationResult(best_tag, confidence, "keyword")

\* re.search(pattern, file_path) for a pattern of FILE_PATH_RULES
FileSearch(pattern, file_path) ==
    \E a \in 1..Len(pattern) :
       IF pattern[a].at_end THEN EndsWith(file_path, pattern[a].literal)
       ELSE Contains(file_path, pattern[a].literal)

\* CommitCategorizer._match_file_paths
_match_file_paths(files) ==
    IF files = <<>> THEN NoResult
    ELSE LET matches == [t \in 1..Len(FILE_PATH_RULES) |->
                           Cardinality({f \in 1..Len(files) :
                              \E p \in 1..Len(FILE_PATH_RULES[t].patterns) :
                                 FileSearch(FILE_PATH_RULES[t].patterns[p], files[f])})]
             scores == ScoresFrom(FILE_PATH_RULES, matches, 1)
         IN IF scores = <<>> THEN NoResult
            ELSE LET best_tag == ArgMax(scores)
                     \* 0.7 + (scores[best_tag] / len(files)) * 0.25
                     confidence ==
                         Min(70 * Hundredth
                                + (DictGet(scores, best_tag) * 25 * Hundredth) \div Len(files),
                             95 * Hundredth)
                 IN CategorizationResult(best_tag, confidence, "file_path")

Newline == 10
\* str.count of a character
Count(str, c) == Cardinality({i \in 1..Len(str) : str[i] = c})

\* CommitCategorizer.DIFF_RULES, in the order of the dict
DiffRule(tag, diff) ==
    CASE tag = "REFACTOR" ->
            /\ Contains(diff, <<99, 108, 97, 115, 115>>)   \* 'class'
            /\ Contains(diff, <<100, 101, 102>>)   \* 'def'
            /\ Count(diff, Newline) > 50
      [] tag = "PERF" ->
            \/ Contains(Lower(diff), <<99, 97, 99, 104, 101>>)   \* 'cache'
            \/ Contains(Lower(diff), <<111, 112, 116, 105, 109, 105, 122, 101>>)   \* 'optimize'
      [] tag = "SECURITY" ->
            \/ Contains(diff, <<112, 97, 115, 115, 119, 111, 114, 100>>)   \* 'password'
            \/ Contains(diff, <<116, 111, 107, 101, 110>>)   \* 'token'
            \/ Contains(diff, <<115, 101, 99, 114, 101, 116>>)   \* 'secret'
DIFF_RULES == <<"REFACTOR", "PERF", "SECURITY">>

\* CommitCategorizer._match_diff_patterns
_match_diff_patterns(diff) ==
    IF \E t \in 1..Len(DIFF_RULES) : DiffRule(DIFF_RULES[t], diff)
    THEN LET t == CHOOSE t \in 1..Len(DIFF_RULES) :
                     /\ DiffRule(DIFF_RULES[t], diff)
                     /\ \A h \in 1..(t - 1) : ~DiffRule(DIFF_RULES[h], diff)
         IN CategorizationResult(DIFF_RULES[t], 75 * Hundredth, "diff")
    ELSE NoResult

\* tag_votes[r.tag] = tag_votes.get(r.tag, 0) + r.confidence, over the results
RECURSIVE TagVotes(_, _, _)
TagVotes(tag_votes, results, k) ==
    IF k > Len(results) THEN tag_votes
    ELSE TagVotes(DictSet(tag_votes, results[k].tag,
                          (IF DictHas(tag_votes, results[k].tag)
                           THEN DictGet(tag_votes, results[k].tag) ELSE 0)
                          + results[k].confidence),
                  results, k + 1)

\* CommitCategorizer._combine_signals
_combine_signals(keyword_result, file_result, diff_result) ==
    LET results == (IF keyword_result.is_none THEN <<>> ELSE <<keyword_result>>)
                   \o (IF file_result.is_none THEN <<>> ELSE <<file_result>>)
                   \o (IF diff_result.is_none THEN <<>> ELSE <<diff_result>>)
    IN IF results = <<>> THEN NoResult
       ELSE LET tag_votes == TagVotes(<<>>, results, 1)
                best_tag == ArgMax(tag_votes)
                combined_confidence == DictGet(tag_votes, best_tag) \div Len(results)
                methods == {k \in 1..Len(results) : results[k].tag = best_tag}
            IN CategorizationResult(
                  best_tag,
                  IF Cardinality(methods) > 1
                  THEN Min(combined_confidence + 15 * Hundredth, 95 * Hundredth)
                  ELSE combined_confidence,
                  "combined")

\* str.split(sep) for a separator of one character
RECURSIVE Split(_, _)
Split(str, sep) ==
    IF \E i \in 1..Len(str) : str[i] = sep
    THEN LET i == CHOOSE i \in 1..Len(str) : str[i] = sep /\ \A h \in 1..(i - 1) : str[h] # sep
         IN <<SubSeq(str, 1, i - 1)>> \o Split(SubSeq(str, i + 1, Len(str)), sep)
    ELSE <<str>>

Digits == 48..57
Point == 46
Plus == 43
Minus == 45
Bar == 124

\* int() of a text of digits
RECURSIVE DigitsValue(_)
DigitsValue(digits) ==
    IF digits = <<>> THEN 0
    ELSE 10 * DigitsValue(SubSeq(digits, 1, Len(digits) - 1)) + (digits[Len(digits)] - 48)

RECURSIVE Pow10(_)
Pow10(k) == IF k = 0 THEN 1 ELSE 10 * Pow10(k - 1)

\* float(text) for a text already stripped: [ok, value], value in units of
\* 1/One; ok is FALSE where float raises ValueError.  The texts read are an
\* optional sign, digits and at most one point; the other texts float accepts
\* (an exponent, underscores, inf, nan) are not among the responses modelled
\* and are taken for unparsable.
ParseFloat(text) ==
    LET signed == text # <<>> /\ text[1] \in {Plus, Minus}
        number == IF signed THEN Tail(text) ELSE text
        points == {i \in 1..Len(number) : number[i] = Point}
        ok == /\ \A i \in 1..Len(number) : number[i] \in Digits \cup {Point}
              /\ Cardinality(points) <= 1
              /\ \E i \in 1..Len(number) : number[i] \in Digits
        at == IF points = {} THEN Len(number) + 1 ELSE CHOOSE i \in points : TRUE
        whole == SubSeq(number, 1, at - 1)
        fraction == SubSeq(number, at + 1, Len(number))
        magnitude == DigitsValue(whole) * One
                       + (DigitsValue(fraction) * One) \div Pow10(Len(fraction))
    IN IF ~ok THEN [ok |-> FALSE, value |-> 0]
       ELSE [ok |-> TRUE,
             value |-> IF signed /\ text[1] = Minus THEN 0 - magnitude ELSE magnitude]

\* TagSystem.get_all_tags() holds the tag written as text: its name, or None
TagNamed(text) ==
    IF \E t \in 1..Len(TAGS) : TAGS[t].chars = text
    THEN TAGS[CHOOSE t \in 1..Len(TAGS) : TAGS[t].chars = text].name
    ELSE None

\* what self.llm_client.messages.create(...) does: it raises, or it returns a
\* response whose content[0].text is text
Raises == [raises |-> TRUE, text |-> <<>>]
Responds(text) == [raises |-> FALSE, text |-> text]
NoResponse == [raises |-> FALSE, text |-> <<0>>]

\* (mutant of _categorize_with_llm: the tag of the response is not validated)
LlmUnvalidated(llm_client, response) ==
    IF ~llm_client THEN NoResult
    ELSE IF response.raises THEN NoResult
    ELSE LET content == Strip(response.text)
             parts == Split(content, Bar)
         IN IF Len(parts) >= 3
            THEN LET tag == Strip(parts[1])
                     confidence == ParseFloat(Strip(parts[2]))
                 IN IF ~confidence.ok THEN NoResult
                    ELSE CategorizationResult(
                            IF TagNamed(tag) # None THEN TagNamed(tag) ELSE "UNKNOWN",
                            confidence.value, "llm")
            ELSE NoResult

\* CommitCategorizer._categorize_with_llm, given what the classifier does
_categorize_with_llm(llm_client, response) ==
    IF ~llm_client THEN NoResult
    ELSE IF response.raises THEN NoResult
    ELSE LET content == Strip(response.text)
             parts == Split(content, Bar)
         IN IF Len(parts) >= 3
            THEN LET tag == Strip(parts[1])
                     confidence == ParseFloat(Strip(parts[2]))
                 IN IF ~confidence.ok THEN NoResult
                    ELSE IF TagNamed(tag) # None
                    THEN CategorizationResult(TagNamed(tag), confidence.value, "llm")
                    ELSE NoResult
            ELSE NoResult

\* the UNTAGGED result categorize falls back to
Fallback == CategorizationResult("UNTAGGED", 0, "fallback")

\* (mutant of categorize: the file-path and combined stages are left out)
CategorizeWithoutFiles(explicit, msg, files, diff, use_llm, llm_client, response) ==
    LET keyword_result == _match_keywords(msg)
        diff_result == IF diff # <<>> THEN _match_diff_patterns(diff) ELSE NoResult
        Returns(result) == [result |-> result, llm_called |-> FALSE]
    IN IF explicit.tag # None
       THEN Returns(CategorizationResult(explicit.tag, explicit.confidence * Hundredth,
                                         "explicit"))
       ELSE IF ~keyword_result.is_none /\ keyword_result.confidence >= 70 * Hundredth
       THEN Returns(keyword_result)
       ELSE IF ~diff_result.is_none /\ diff_result.confidence >= 75 * Hundredth
       THEN Returns(diff_result)
       ELSE IF use_llm /\ llm_client
       THEN LET llm_result == _categorize_with_llm(llm_client, response)
            IN [result |-> IF ~llm_result.is_none THEN llm_result ELSE Fallback,
                llm_called |-> TRUE]
       ELSE Returns(Fallback)

\* CommitCategorizer.categorize: [result, llm_called]
categorize(explicit, msg, files, diff, use_llm, llm_client, response) ==
    LET keyword_result == _match_keywords(msg)
        file_result == _match_file_paths(files)
        diff_result == IF diff # <<>> THEN _match_diff_patterns(diff) ELSE NoResult
        combined == _combine_signals(keyword_result, file_result, diff_result)
        Returns(result) == [result |-> result, llm_called |-> FALSE]
    IN IF explicit.tag # None
       THEN Returns(CategorizationResult(explicit.tag, explicit.confidence * Hundredth,
                                         "explicit"))
       ELSE IF ~keyword_result.is_none /\ keyword_result.confidence >= 70 * Hundredth
       THEN Returns(keyword_result)
       ELSE IF ~file_result.is_none /\ file_result.confidence >= 80 * Hundredth
       THEN Returns(file_result)
       ELSE IF ~diff_result.is_none /\ diff_result.confidence >= 75 * Hundredth
       THEN Returns(diff_result)
       ELSE IF ~combined.is_none /\ combined.confidence >= 65 * Hundredth
       THEN Returns(combined)
       ELSE IF use_llm /\ llm_client
       THEN LET llm_result == _categorize_with_llm(llm_client, response)
            IN [result |-> IF ~llm_result.is_none THEN llm_result ELSE Fallback,
                llm_called |-> TRUE]
       ELSE Returns(Fallback)

\* inputs of categorize
MaxFiles == 2
CatMessages ==
    { <<91, 70, 73, 88, 93, 32, 99, 114, 97, 115, 104>>,    \* '[FIX] crash'
      <<102, 105, 120, 32, 99, 114, 97, 115, 104>>,    \* 'fix crash'
      <<102, 105, 120, 32, 98, 114, 111, 107, 101, 110, 32, 110, 117, 108, 108, 32, 32, 112, 111, 105, 110, 116, 101, 114>>,    \* 'fix broken null  pointer'
      <<97, 100, 100, 32, 116, 101, 115, 116>>,    \* 'add test'
      <<117, 112, 100, 97, 116, 101, 32, 115, 116, 117, 102, 102>>,    \* 'update stuff'
      <<10024, 32, 115, 104, 105, 110, 121>>,    \* '✨ shiny'
      <<70, 105, 120, 58, 32, 120>>,    \* 'Fix: x'
      <<>>,    \* ''
      <<99, 108, 101, 97, 110, 32, 32, 117, 112, 32, 99, 111, 100, 101>>,    \* 'clean  up code'
      <<112, 114, 101, 102, 105, 120>>,    \* 'prefix'
      <<77, 101, 114, 103, 101, 32, 119, 105, 112>> }    \* 'Merge wip'
FilePaths ==
    { <<116, 101, 115, 116, 115, 47, 97, 46, 112, 121>>,    \* 'tests/a.py'
      <<82, 69, 65, 68, 77, 69, 46, 109, 100>>,    \* 'README.md'
      <<115, 114, 99, 47, 97, 46, 112, 121>>,    \* 'src/a.py'
      <<46, 101, 110, 118>> }    \* '.env'
\* the lists of up to MaxFiles paths, and one list a third of whose files
\* match a rule (the file stage stays below its threshold on it)
FileLists ==
    SeqsUpTo(FilePaths, MaxFiles)
       \cup { << <<82, 69, 65, 68, 77, 69, 46, 109, 100>>,    \* 'README.md'
                 <<115, 114, 99, 47, 97, 46, 112, 121>>,     \* 'src/a.py'
                 <<115, 114, 99, 47, 98, 46, 112, 121>> >> }  \* 'src/b.py'
ManyLines == [k \in 1..51 |-> Newline]
Diffs ==
    { <<>>,
      <<120>>,                                          \* 'x'
      <<116, 111, 107, 101, 110>>,                     \* 'token'
      <<67, 97, 99, 104, 101>>,                      \* 'Cache'
      <<99, 108, 97, 115, 115, 32, 100, 101, 102>> \o ManyLines }   \* 'class def' and 51 newlines
LlmTexts ==
    { <<70, 73, 88, 32, 124, 32, 48, 46, 57, 53, 32, 124, 32, 111, 107>>,    \* 'FIX | 0.95 | ok'
      <<70, 73, 88, 32, 124, 32, 49, 46, 53, 32, 124, 32, 111, 107>>,    \* 'FIX | 1.5 | ok'
      <<70, 73, 88, 32, 124, 32, 45, 48, 46, 50, 32, 124, 32, 111, 107>>,    \* 'FIX | -0.2 | ok'
      <<70, 73, 88, 32, 124, 32, 104, 105, 103, 104, 32, 124, 32, 111, 107>>,    \* 'FIX | high | ok'
      <<66, 85, 71, 32, 124, 32, 48, 46, 57, 32, 124, 32, 111, 107>>,    \* 'BUG | 0.9 | ok'
      <<102, 105, 120, 124, 48, 46, 57, 124, 111, 107>>,    \* 'fix|0.9|ok'
      <<70, 73, 88, 32, 48, 46, 57>>,    \* 'FIX 0.9'
      <<>>,    \* ''
      <<85, 78, 84, 65, 71, 71, 69, 68, 32, 124, 32, 48, 46, 48, 32, 124, 32, 111, 107>> }    \* 'UNTAGGED | 0.0 | ok'
LlmResponses == {Raises} \cup {Responds(text) : text \in LlmTexts}

\* a call categorizer.categorize(message, files, diff, use_llm) on a
\* categorizer with or without an llm_client; what the classifier answers
\* matters only in the calls that reach it
Categorize ==
    /\ call.fn = "categorize" /\ ret = NoReturn
    /\ ALIAS_MAP' = _build_alias_map(ALIAS_MAP)
    /\ parsed' = ParseTag(message, ALIAS_MAP')
    /\ LET Returned(response) ==
              categorize(parsed', message, call.files, call.diff, call.use_llm,
                         call.llm_client, response)
           unaided == Returned(Raises)
       IN IF ~unaided.llm_called
          THEN ret' = [fn |-> "categorize", result |-> unaided.result,
                       llm_called |-> FALSE, response |-> NoResponse]
          ELSE \E response \in LlmResponses :
                  ret' = [fn |-> "categorize", result |-> Returned(response).result,
                          llm_called |-> TRUE, response |-> response]
    /\ UNCHANGED <<message, call, threads>>
    /\ UNCHANGED clientVars

InitCat ==
    /\ client = NoClient
    /\ cache = [k \in CacheKeys |-> NoRow]
    /\ now = 0
    /\ run = IdleRun
    /\ last = NoCall
    /\ prev = NoCall
    /\ calls = 0
    /\ faults = 0
    /\ message \in CatMessages
    /\ ALIAS_MAP = <<>>
    /\ parsed = NoParse
    /\ call \in [fn : {"categorize"}, files : FileLists, diff : Diffs,
                  use_llm : BOOLEAN, llm_client : BOOLEAN]
    /\ ret = NoReturn
    /\ threads = <<>>

NextCat == Categorize

SpecCat == InitCat /\ [][NextCat]_vars

(***************************************************************************)
(* Claims about CommitCategorizer.categorize.                              *)
(***************************************************************************)
\* categorize has returned
CatDone == ret.fn = "categorize"

\* a stage gave no result, or one below its threshold (in hundredths)
Below(result, threshold) == result.is_none \/ result.confidence < threshold * Hundredth

\* the diff stage as categorize runs it: only for a diff that is not empty
DiffStage == IF call.diff # <<>> THEN _match_diff_patterns(call.diff) ELSE NoResult

\* the external stage of the call: skipped without a classifier or without
\* leave to use it
ExternalStage ==
    IF call.use_llm /\ call.llm_client
    THEN _categorize_with_llm(TRUE, ret.response)
    ELSE NoResult

\* C12: categorize always returns a result, and it returns UNTAGGED with
\* confidence 0.0 and method fallback exactly when no explicit tag is parsed
\* and each of the keyword, file-path, diff, combined and external stages
\* gives no result or one below its threshold, the external stage counting
\* as giving none when no classifier is configured or its use is not allowed.
C12_FallbackExactly ==
    CatDone =>
       /\ ~ret.result.is_none
       /\ ret.result = Fallback <=>
             /\ parsed.tag = None
             /\ Below(_match_keywords(message), 70)
             /\ Below(_match_file_paths(call.files), 80)
             /\ Below(DiffStage, 75)
             /\ Below(_combine_signals(_match_keywords(message),
                                       _match_file_paths(call.files), DiffStage), 65)
             /\ ExternalStage.is_none
       /\ ret.result.tag = "UNTAGGED" => ret.result = Fallback

\* C12 witness: categorize fell back to UNTAGGED for a commit with files, once
\* with the classifier asked and giving nothing
C12_Witness ==
    /\ CatDone
    /\ ret.result = Fallback
    /\ call.files # <<>>
    /\ ret.llm_called

\* the fields of the classifier's response
ResponseParts == Split(Strip(ret.response.text), Bar)

\* the response is a failure: the call raised, the text has fewer than three
\* fields, the confidence is no number, or the tag is not in the taxonomy
ResponseFails ==
    \/ ret.response.raises
    \/ Len(ResponseParts) < 3
    \/ ~ParseFloat(Strip(ResponseParts[2])).ok
    \/ TagNamed(Strip(ResponseParts[1])) = None

\* C13: when the external stage is reached and the classifier fails (it
\* raises, or answers a malformed text, a confidence that is no number or a
\* tag outside the taxonomy), categorize returns the UNTAGGED fallback; a
\* result of the external stage always carries a tag of the taxonomy.
C13_ExternalFailuresNotFatal ==
    (CatDone /\ ret.llm_called) =>
       /\ ResponseFails => ret.result = Fallback
       /\ ret.result.method = "llm" =>
             /\ ~ResponseFails
             /\ ret.result.tag = TagNamed(Strip(ResponseParts[1]))

\* C13 witness: the classifier answered a well-formed text whose tag is not in
\* the taxonomy, and categorize returned the fallback
C13_Witness ==
    /\ CatDone /\ ret.llm_called
    /\ ~ret.response.raises
    /\ Len(ResponseParts) >= 3
    /\ ParseFloat(Strip(ResponseParts[2])).ok
    /\ TagNamed(Strip(ResponseParts[1])) = None
    /\ ret.result = Fallback

\* C14: every result categorize returns has a confidence in [0, 1].
C14_ConfidenceRange ==
    CatDone => (0 <= ret.result.confidence /\ ret.result.confidence <= One)

(***************************************************************************)
(* Day type, cognitive load and productivity index                         *)
(* (tag_system_v2.py DAY_TYPES, egi_productivity_v7.py).  Floats are       *)
(* fixed-point integers: percentages, logarithms and cognitive loads in    *)
(* thousandths, multipliers in hundredths, weights in tenths, productivity *)
(* indexes in hundredths (rounded to nearest).                             *)
(***************************************************************************)
\* stats.get(tag, 0) on a dict given as a function
Get(stats, tag) == IF tag \in DOMAIN stats THEN stats[tag] ELSE 0

\* DAY_TYPES, in the order of the dict: name, multiplier (hundredths), icon
DAY_TYPES ==
    << [name |-> "REFACTORING", multiplier |-> 150, icon |-> <<128295>>],
       [name |-> "BUG_FIXING",  multiplier |-> 130, icon |-> <<128027>>],
       [name |-> "FEATURE_DEV", multiplier |-> 100, icon |-> <<10024>>],
       [name |-> "TESTING",     multiplier |-> 110, icon |-> <<129514>>],
       [name |-> "MAINTENANCE", multiplier |-> 80,  icon |-> <<128296>>],
       [name |-> "MIXED",       multiplier |-> 100, icon |-> <<65533, 65533>>] >>

\* DAY_TYPES[day_type]['criteria'](stats), percentages in thousandths
Criteria(day_type, stats) ==
    CASE day_type = "REFACTORING" ->
             Get(stats, "REFACTOR") > 20000 \/ Get(stats, "FIX") > 50000
      [] day_type = "BUG_FIXING"  ->
             Get(stats, "FIX") > 40000 /\ Get(stats, "FIX") <= 50000
      [] day_type = "FEATURE_DEV" -> Get(stats, "FEAT") > 50000
      [] day_type = "TESTING"     -> Get(stats, "TEST") > 40000
      [] day_type = "MAINTENANCE" -> Get(stats, "CHORE") > 40000
      [] day_type = "MIXED"       -> TRUE

\* the entry of DAY_TYPES of a name: DAY_TYPES[day_type]
DayType(day_type) == DAY_TYPES[CHOOSE t \in 1..Len(DAY_TYPES) : DAY_TYPES[t].name = day_type]

\* (mutant of classify_day_type: BUG_FIXING is tried before REFACTORING)
ClassifyBugFixingFirst(tag_percentages) ==
    IF Criteria("BUG_FIXING", tag_percentages)
    THEN [day_type |-> "BUG_FIXING", icon |-> DayType("BUG_FIXING").icon]
    ELSE LET t == CHOOSE t \in 1..Len(DAY_TYPES) :
                     /\ Criteria(DAY_TYPES[t].name, tag_percentages)
                     /\ \A h \in 1..(t - 1) : ~Criteria(DAY_TYPES[h].name, tag_percentages)
         IN [day_type |-> DAY_TYPES[t].name, icon |-> DAY_TYPES[t].icon]

\* classify_day_type
classify_day_type(tag_percentages) ==
    IF \E t \in 1..Len(DAY_TYPES) : Criteria(DAY_TYPES[t].name, tag_percentages)
    THEN LET t == CHOOSE t \in 1..Len(DAY_TYPES) :
                     /\ Criteria(DAY_TYPES[t].name, tag_percentages)
                     /\ \A h \in 1..(t - 1) : ~Criteria(DAY_TYPES[h].name, tag_percentages)
         IN [day_type |-> DAY_TYPES[t].name, icon |-> DAY_TYPES[t].icon]
    ELSE [day_type |-> "MIXED", icon |-> <<128230>>]

\* math.log in thousandths, rounded down: a table for 1..128, and above it
\* log(n) taken as log(n div 2) + log(2), which is below math.log(n) by less
\* than 0.03
LogTable ==
    << 0, 693, 1098, 1386, 1609, 1791, 1945, 2079, 2197, 2302, 2397, 2484,
       2564, 2639, 2708, 2772, 2833, 2890, 2944, 2995, 3044, 3091, 3135,
       3178, 3218, 3258, 3295, 3332, 3367, 3401, 3433, 3465, 3496, 3526,
       3555, 3583, 3610, 3637, 3663, 3688, 3713, 3737, 3761, 3784, 3806,
       3828, 3850, 3871, 3891, 3912, 3931, 3951, 3970, 3988, 4007, 4025,
       4043, 4060, 4077, 4094, 4110, 4127, 4143, 4158, 4174, 4189, 4204,
       4219, 4234, 4248, 4262, 4276, 4290, 4304, 4317, 4330, 4343, 4356,
       4369, 4382, 4394, 4406, 4418, 4430, 4442, 4454, 4465, 4477, 4488,
       4499, 4510, 4521, 4532, 4543, 4553, 4564, 4574, 4584, 4595, 4605,
       4615, 4624, 4634, 4644, 4653, 4663, 4672, 4682, 4691, 4700, 4709,
       4718, 4727, 4736, 4744, 4753, 4762, 4770, 4779, 4787, 4795, 4804,
       4812, 4820, 4828, 4836, 4844, 4852 >>
RECURSIVE Log(_)
Log(n) == IF n <= Len(LogTable) THEN LogTable[n] ELSE Log(n \div 2) + LogTable[2]

\* (mutant of calculate_cognitive_load: the result is not capped at 3.5)
CognitiveLoadUncapped(commits, files, lines_touched) ==
    IF commits = 0 THEN 1000
    ELSE LET li == Log(lines_touched + 1)
             fm == Log(files + 1)
             dp == Log(commits + 1)
             cl == (li + fm + dp) \div 3
             cl_normalized == 1000 + (cl \div 2)
         IN Max(1000, cl_normalized)

\* calculate_cognitive_load, in thousandths
calculate_cognitive_load(commits, files, lines_touched) ==
    IF commits = 0 THEN 1000
    ELSE LET li == Log(lines_touched + 1)
             fm == Log(files + 1)
             dp == Log(commits + 1)
             cl == (li + fm + dp) \div 3
             cl_normalized == 1000 + (cl \div 2)
         IN Max(1000, Min(3500, cl_normalized))

Abs(n) == IF n < 0 THEN 0 - n ELSE n

\* num / den rounded to the nearest integer, for num >= 0 and den > 0
RoundDiv(num, den) == (2 * num + den) \div (2 * den)

\* (mutant of calculate_productivity_index: lines removed count negatively)
ProductivityIndexSigned(commits_weighted, lines_net, cognitive_load, day_type_multiplier) ==
    LET load == IF cognitive_load = 0 THEN 1000 ELSE cognitive_load
        tenfold == Max(0, commits_weighted * 10 + lines_net)
    IN RoundDiv(tenfold * day_type_multiplier * 100, load)

\* calculate_productivity_index, in hundredths: commits_weighted in tenths,
\* cognitive_load in thousandths, day_type_multiplier in hundredths
calculate_productivity_index(commits_weighted, lines_net, cognitive_load, day_type_multiplier) ==
    LET load == IF cognitive_load = 0 THEN 1000 ELSE cognitive_load
        \* ten times base_score = commits_weighted * 10.0 + abs(lines_net) / 10.0
        tenfold == commits_weighted * 10 + Abs(lines_net)
    IN RoundDiv(tenfold * day_type_multiplier * 100, load)

\* TagConfig.weight of every tag of TagSystem.TAGS, in tenths
TagWeights ==
    [FEAT |-> 10, FIX |-> 15, REFACTOR |-> 20, TEST |-> 12, DEBUG |-> 13,
     DOC |-> 8, CONFIG |-> 7, CHORE |-> 6, I18N |-> 7, PERF |-> 14,
     SECURITY |-> 18, WIP |-> 3, REVERT |-> 5, MERGE |-> 4, DEPLOY |-> 8,
     UPDATE |-> 6]

\* A get_weight whose default for a tag outside the taxonomy is 0.
GetWeightZeroDefault(tag) == IF tag \in DOMAIN TagWeights THEN TagWeights[tag] ELSE 0

\* TagSystem.get_weight, in tenths
get_weight(tag) == IF tag \in DOMAIN TagWeights THEN TagWeights[tag] ELSE 5

RECURSIVE Sum(_)
Sum(s) == IF s = <<>> THEN 0 ELSE Head(s) + Sum(Tail(s))

\* a Counter over a list of keys, and the sum of a value per key
Counter(keys) == [key \in Range(keys) |-> Cardinality({k \in 1..Len(keys) : keys[k] = key})]
Tally(keys, values) ==
    [key \in Range(keys) |->
        Sum([k \in 1..Len(keys) |-> IF keys[k] = key THEN values[k] ELSE 0])]

\* datetime.date() of a commit's date
DateOf(datetime) == datetime.day

\* the tag analyze_day gives a commit: parse_tag, and without an explicit
\* tag categorizer.categorize(message, files_changed)
CommitTag(commit, map) ==
    LET explicit == ParseTag(commit.message, map)
    IN IF explicit.tag # None THEN explicit.tag
       ELSE categorize(explicit, commit.message, commit.files_changed, <<>>,
                       FALSE, FALSE, Raises).result.tag

\* the percentage count / total * 100, in thousandths (rounded down)
Percentage(count, total) == (count * 100000) \div total

\* the DayStats of a day without commits
EmptyDay(date) ==
    [date |-> date, repos_commits |-> <<>>, repos_lines_net |-> <<>>,
     commits |-> 0, commits_weighted |-> 0, files_modified |-> 0,
     lines_added |-> 0, lines_removed |-> 0, lines_touched |-> 0, lines_net |-> 0,
     tags |-> <<>>, day_type |-> "MIXED", day_type_icon |-> <<128230>>,
     cognitive_load |-> 1000, productivity_index |-> 0]

\* the DayStats analyze_day builds for the commits of a day, given their tags
DayStats(date, day_commits, tag_list) ==
    LET n == Len(day_commits)
        tag_counter == Counter(tag_list)
        commits_weighted == Sum([k \in 1..n |-> get_weight(tag_list[k])])
        tag_percentages == [tag \in DOMAIN tag_counter |-> Percentage(tag_counter[tag], n)]
        repos == [k \in 1..n |-> day_commits[k].repository]
        all_files == UNION {Range(day_commits[k].files_changed) : k \in 1..n}
        lines_added == Sum([k \in 1..n |-> day_commits[k].additions])
        lines_removed == Sum([k \in 1..n |-> day_commits[k].deletions])
        lines_touched == lines_added + lines_removed
        lines_net == lines_added - lines_removed
        classified == classify_day_type(tag_percentages)
        day_type_multiplier == DayType(classified.day_type).multiplier
        cognitive_load == calculate_cognitive_load(n, Cardinality(all_files), lines_touched)
        productivity == calculate_productivity_index(commits_weighted, lines_net,
                                                     cognitive_load, day_type_multiplier)
    IN IF n = 0 THEN EmptyDay(date)
       ELSE [date |-> date,
             repos_commits |-> Counter(repos),
             repos_lines_net |->
                 Tally(repos, [k \in 1..n |-> day_commits[k].additions
                                                 - day_commits[k].deletions]),
             commits |-> n, commits_weighted |-> commits_weighted,
             files_modified |-> Cardinality(all_files),
             lines_added |-> lines_added, lines_removed |-> lines_removed,
             lines_touched |-> lines_touched, lines_net |-> lines_net,
             tags |-> tag_counter,
             day_type |-> classified.day_type, day_type_icon |-> classified.icon,
             cognitive_load |-> cognitive_load, productivity_index |-> productivity]

\* the loop of analyze_day over the commits of the day: the tag of each
TagsOf(day_commits, map) == [k \in 1..Len(day_commits) |-> CommitTag(day_commits[k], map)]

\* analyze_day from day_commits on
DayOf(date, day_commits, map) == DayStats(date, day_commits, TagsOf(day_commits, map))

\* ProductivityAnalyzer.analyze_day; map is the alias index parse_tag uses
analyze_day(date, all_commits, map) ==
    DayOf(date, SelectSeq(all_commits, LAMBDA c : DateOf(c.date) = date), map)

\* the sum over a list of dicts of the values of one key
TotalOf(dicts, key) == Sum([k \in 1..Len(dicts) |-> Get(dicts[k], key)])
KeysOf(dicts) == UNION {DOMAIN dicts[k] : k \in 1..Len(dicts)}

\* the sum of the values of a dict over a set of its keys
RECURSIVE SumValues(_, _)
SumValues(dict, keys) ==
    IF keys = {} THEN 0
    ELSE LET key == CHOOSE key \in keys : TRUE
         IN dict[key] + SumValues(dict, keys \ {key})

\* (mutant of DaysWithCommits: every day counts in the averages)
EveryDay(daily_stats) == daily_stats

\* days_with_commits = [d for d in daily_stats if d.commits > 0]
DaysWithCommits(daily_stats) == SelectSeq(daily_stats, LAMBDA d : d.commits > 0)

\* the WeekStats analyze_week builds from the days' statistics
\* (period and description, which are texts for display, are left out)
WeekStats(week_number, start_date, end_date, daily_stats) ==
    LET days == Len(daily_stats)
        repos_commits == [k \in 1..days |-> daily_stats[k].repos_commits]
        repos_lines_net == [k \in 1..days |-> daily_stats[k].repos_lines_net]
        total_commits == Sum([k \in 1..days |-> daily_stats[k].commits])
        tagged_commits ==
            Sum([k \in 1..days |->
                    SumValues(daily_stats[k].tags,
                              DOMAIN daily_stats[k].tags \ {"UNTAGGED"})])
        days_with_commits == DaysWithCommits(daily_stats)
        worked == Len(days_with_commits)
    IN [week_number |-> week_number, start_date |-> start_date, end_date |-> end_date,
        repos_commits |-> [repo \in KeysOf(repos_commits) |->
                              TotalOf(repos_commits, repo)],
        repos_lines_net |-> [repo \in KeysOf(repos_lines_net) |->
                                TotalOf(repos_lines_net, repo)],
        commits |-> total_commits,
        commits_weighted |-> Sum([k \in 1..days |-> daily_stats[k].commits_weighted]),
        files_modified |-> Sum([k \in 1..days |-> daily_stats[k].files_modified]),
        lines_touched |-> Sum([k \in 1..days |-> daily_stats[k].lines_touched]),
        lines_net |-> Sum([k \in 1..days |-> daily_stats[k].lines_net]),
        tag_coverage_pct |-> IF total_commits > 0
                             THEN Percentage(tagged_commits, total_commits) ELSE 0,
        avg_cognitive_load |->
            IF worked > 0
            THEN Sum([k \in 1..worked |-> days_with_commits[k].cognitive_load])
                    \div worked
            ELSE 1000,
        avg_productivity |->
            IF worked > 0
            THEN Sum([k \in 1..worked |-> days_with_commits[k].productivity_index])
                    \div worked
            ELSE 0,
        testing_minutes |-> total_commits * 22,
        coding_minutes |-> total_commits * 22]

\* analyze_week from daily_stats on: the WeekStats and the daily stats
WeekOf(week_number, start_date, end_date, daily_stats) ==
    [week |-> WeekStats(week_number, start_date, end_date, daily_stats),
     daily_stats |-> daily_stats]

\* ProductivityAnalyzer.analyze_week
analyze_week(week_number, start_date, end_date, all_commits, map) ==
    WeekOf(week_number, start_date, end_date,
           [k \in 1..Max(0, end_date - start_date + 1) |->
               analyze_day(start_date + k - 1, all_commits, map)])

\* inputs of the statistics functions
DayTags == {"REFACTOR", "FIX", "FEAT", "TEST", "CHORE"}
Percents == {20000, 21000, 40000, 41000, 50000, 51000}
TagPercentages ==
    {stats \in UNION {[tags -> Percents] : tags \in SUBSET DayTags} :
        SumValues(stats, DOMAIN stats) <= 100000}
CommitCounts == {0, 1, 3, 50}
FileCounts == {0, 1, 4, 2000}
LineCounts == {0, 10, 500, 1000000}
WeightedCommits == {0, 6, 30}
NetLines == {0 - 100, 0 - 7, 0, 7, 100}
CognitiveLoads == {0, 1000, 1500, 3500}
Multipliers == {DAY_TYPES[t].multiplier : t \in 1..Len(DAY_TYPES)}
MaxCommits == 2     \* commits in the list given to analyze_week
MaxDate == 2        \* dates are 1..MaxDate
Commits ==
    { [date |-> [day |-> 1, hour |-> 9], repository |-> "a",
       message |-> <<91, 70, 73, 88, 93, 32, 99, 114, 97, 115, 104>>,    \* '[FIX] crash'
       files_changed |-> << <<115, 114, 99, 47, 97, 46, 112, 121>> >>,  \* 'src/a.py'
       additions |-> 10, deletions |-> 2],
      [date |-> [day |-> 1, hour |-> 23], repository |-> "b",
       message |-> <<97, 100, 100, 32, 116, 101, 115, 116>>,    \* 'add test'
       files_changed |-> << <<116, 101, 115, 116, 115, 47, 97, 46, 112, 121>> >>,
       additions |-> 5, deletions |-> 0],
      [date |-> [day |-> 2, hour |-> 0], repository |-> "a",
       message |-> <<117, 112, 100, 97, 116, 101, 32, 115, 116, 117, 102, 102>>,    \* 'update stuff'
       files_changed |-> <<>>,
       additions |-> 0, deletions |-> 30],
      [date |-> [day |-> 2, hour |-> 12], repository |-> "a",
       message |-> <<>>,
       files_changed |-> << <<115, 114, 99, 47, 97, 46, 112, 121>>,
                            <<82, 69, 65, 68, 77, 69, 46, 109, 100>> >>,
       additions |-> 1, deletions |-> 1],
      [date |-> [day |-> 3, hour |-> 7], repository |-> "b",
       message |-> <<10024, 32, 115, 104, 105, 110, 121>>,    \* U+2728 ' shiny'
       files_changed |-> << <<46, 101, 110, 118>> >>,     \* '.env'
       additions |-> 400, deletions |-> 0] }

DayTypeCalls == [fn : {"classify_day_type"}, tag_percentages : TagPercentages]
CognitiveLoadCalls ==
    [fn : {"calculate_cognitive_load"}, commits : CommitCounts, files : FileCounts,
     lines_touched : LineCounts]
ProductivityCalls ==
    [fn : {"calculate_productivity_index"}, commits_weighted : WeightedCommits,
     lines_net : NetLines, cognitive_load : CognitiveLoads,
     day_type_multiplier : Multipliers]
WeekCalls ==
    [fn : {"analyze_week"}, week_number : {1}, start_date : 1..MaxDate,
     end_date : 1..MaxDate, all_commits : SeqsUpTo(Commits, MaxCommits)]

ClassifyDayType ==
    /\ call.fn = "classify_day_type" /\ ret = NoReturn
    /\ LET classified == classify_day_type(call.tag_percentages)
       IN ret' = [fn |-> "classify_day_type", day_type |-> classified.day_type,
                  icon |-> classified.icon]
    /\ UNCHANGED <<clientVars, tagVars, call, threads>>

CalculateCognitiveLoad ==
    /\ call.fn = "calculate_cognitive_load" /\ ret = NoReturn
    /\ ret' = [fn |-> "calculate_cognitive_load",
               value |-> calculate_cognitive_load(call.commits, call.files,
                                                  call.lines_touched)]
    /\ UNCHANGED <<clientVars, tagVars, call, threads>>

CalculateProductivityIndex ==
    /\ call.fn = "calculate_productivity_index" /\ ret = NoReturn
    /\ ret' = [fn |-> "calculate_productivity_index",
               value |-> calculate_productivity_index(
                             call.commits_weighted, call.lines_net,
                             call.cognitive_load, call.day_type_multiplier)]
    /\ UNCHANGED <<clientVars, tagVars, call, threads>>

\* analyzer.analyze_week(...); parse_tag builds the alias index when the
\* first commit of a day is given to it
AnalyzeWeek ==
    /\ call.fn = "analyze_week" /\ ret = NoReturn
    /\ ALIAS_MAP' =
          IF \E k \in 1..Len(call.all_commits) :
                /\ call.start_date <= DateOf(call.all_commits[k].date)
                /\ DateOf(call.all_commits[k].date) <= call.end_date
          THEN _build_alias_map(ALIAS_MAP)
          ELSE ALIAS_MAP
    /\ \E returned \in {analyze_week(call.week_number, call.start_date, call.end_date,
                                     call.all_commits, ALIAS_MAP')} :
          ret' = [fn |-> "analyze_week", week |-> returned.week,
                  daily_stats |-> returned.daily_stats]
    /\ UNCHANGED <<clientVars, message, parsed, call, threads>>

InitStats ==
    /\ client = NoClient
    /\ cache = [k \in CacheKeys |-> NoRow]
    /\ now = 0
    /\ run = IdleRun
    /\ last = NoCall
    /\ prev = NoCall
    /\ calls = 0
    /\ faults = 0
    /\ message = <<>>
    /\ ALIAS_MAP = <<>>
    /\ parsed = NoParse
    /\ call \in DayTypeCalls \cup CognitiveLoadCalls \cup ProductivityCalls \cup WeekCalls
    /\ ret = NoReturn
    /\ threads = <<>>

NextStats ==
    \/ ClassifyDayType
    \/ CalculateCognitiveLoad
    \/ CalculateProductivityIndex
    \/ AnalyzeWeek

SpecStats == InitStats /\ [][NextStats]_vars

(***************************************************************************)
(* Claims about the day type, the cognitive load, the productivity index   *)
(* and the week's statistics                                               *)
(***************************************************************************)
DayTypeDone == ret.fn = "classify_day_type"
CognitiveLoadDone == ret.fn = "calculate_cognitive_load"
ProductivityDone == ret.fn = "calculate_productivity_index"
WeekDone == ret.fn = "analyze_week"

DayTypeOrder ==
    <<"REFACTORING", "BUG_FIXING", "FEATURE_DEV", "TESTING", "MAINTENANCE", "MIXED">>

\* C15: classify_day_type returns the first day type, in the order
\* REFACTORING, BUG_FIXING, FEATURE_DEV, TESTING, MAINTENANCE, MIXED, whose
\* predicate holds of the tag percentages; percentages satisfying both the
\* REFACTORING and the BUG_FIXING predicate give REFACTORING; MIXED, whose
\* multiplier is 1.0, is returned exactly when no earlier predicate holds.
C15_FirstMatchInOrder ==
    DayTypeDone =>
       LET stats == call.tag_percentages
       IN /\ \E k \in 1..Len(DayTypeOrder) :
                /\ ret.day_type = DayTypeOrder[k]
                /\ Criteria(DayTypeOrder[k], stats)
                /\ \A h \in 1..(k - 1) : ~Criteria(DayTypeOrder[h], stats)
          /\ (Criteria("REFACTORING", stats) /\ Criteria("BUG_FIXING", stats))
                => ret.day_type = "REFACTORING"
          /\ ret.day_type = "MIXED"
                <=> \A h \in 1..(Len(DayTypeOrder) - 1) : ~Criteria(DayTypeOrder[h], stats)
          /\ DayType("MIXED").multiplier = 100

C15_Witness ==
    /\ DayTypeDone
    /\ Criteria("REFACTORING", call.tag_percentages)
    /\ Criteria("BUG_FIXING", call.tag_percentages)
    /\ ret.day_type = "REFACTORING"

\* C16: for non-negative counts calculate_cognitive_load returns a value in
\* [1.0, 3.5], and exactly 1.0 when the commit count is 0; the cognitive
\* load of every DayStats of analyze_day is in [1.0, 3.5].
C16_CognitiveLoadBounds ==
    /\ CognitiveLoadDone =>
          /\ 1000 <= ret.value /\ ret.value <= 3500
          /\ call.commits = 0 => ret.value = 1000
    /\ WeekDone =>
          \A k \in 1..Len(ret.daily_stats) :
             /\ 1000 <= ret.daily_stats[k].cognitive_load
             /\ ret.daily_stats[k].cognitive_load <= 3500
             /\ ret.daily_stats[k].commits = 0 => ret.daily_stats[k].cognitive_load = 1000

C16_Witness ==
    /\ CognitiveLoadDone
    /\ call.commits > 0
    /\ CognitiveLoadUncapped(call.commits, call.files, call.lines_touched) > 3500
    /\ ret.value = 3500

\* C17: calculate_productivity_index gives the same value for net lines n
\* and -n, the other arguments being equal, and the value is
\* (w * 10 + |n| / 10) * m / c; for w = 3, |n| = 100, c = 1.5 and m = 1.0
\* it is 26.67.
C17_SignSymmetry ==
    ProductivityDone =>
       LET w == call.commits_weighted
           n == call.lines_net
           c == call.cognitive_load
           m == call.day_type_multiplier
           magnitude == IF n < 0 THEN 0 - n ELSE n
       IN /\ ret.value = calculate_productivity_index(w, 0 - n, c, m)
          /\ c # 0 => ret.value = RoundDiv((w * 10 + magnitude) * m * 100, c)
          /\ (w = 30 /\ magnitude = 100 /\ c = 1500 /\ m = 100) => ret.value = 2667

C17_Witness ==
    /\ ProductivityDone
    /\ call.commits_weighted = 30 /\ call.lines_net = 0 - 100
    /\ call.cognitive_load = 1500 /\ call.day_type_multiplier = 100
    /\ ret.value = 2667

\* the commits of the call that are dated in [start_date, end_date]
InWeek == {k \in 1..Len(call.all_commits) :
              /\ call.start_date <= call.all_commits[k].date.day
              /\ call.all_commits[k].date.day <= call.end_date}

\* C18: analyze_week holds one DayStats of analyze_day for each date of
\* [start_date, end_date]; its commit, weighted-commit and line totals are
\* the sums of the days' values; the tag coverage is 100 * (commits whose
\* tag is not UNTAGGED) / (commits), and 0 without commits; the average
\* cognitive load and productivity are taken over the days with a commit,
\* and are 1.0 and 0.0 when no day has one.
C18_WeekFold ==
    WeekDone =>
       LET days == ret.daily_stats
           week == ret.week
           n == Len(days)
           worked == {k \in 1..n : days[k].commits > 0}
           tagged == {k \in InWeek :
                         CommitTag(call.all_commits[k], BuiltAliasMap) # "UNTAGGED"}
       IN /\ n = Max(0, call.end_date - call.start_date + 1)
          /\ \A k \in 1..n :
                /\ days[k].date = call.start_date + k - 1
                /\ days[k] = analyze_day(days[k].date, call.all_commits, BuiltAliasMap)
          /\ week.commits = Sum([k \in 1..n |-> days[k].commits])
          /\ week.commits = Cardinality(InWeek)
          /\ week.commits_weighted = Sum([k \in 1..n |-> days[k].commits_weighted])
          /\ week.lines_touched = Sum([k \in 1..n |-> days[k].lines_touched])
          /\ week.lines_net = Sum([k \in 1..n |-> days[k].lines_net])
          /\ week.tag_coverage_pct =
                IF week.commits = 0 THEN 0
                ELSE (100000 * Cardinality(tagged)) \div week.commits
          /\ week.avg_cognitive_load =
                IF worked = {} THEN 1000
                ELSE SumValues([k \in 1..n |-> days[k].cognitive_load], worked)
                        \div Cardinality(worked)
          /\ week.avg_productivity =
                IF worked = {} THEN 0
                ELSE SumValues([k \in 1..n |-> days[k].productivity_index], worked)
                        \div Cardinality(worked)

C18_Witness ==
    /\ WeekDone
    /\ \E k \in 1..Len(ret.daily_stats) : ret.daily_stats[k].commits = 0
    /\ \E k \in 1..Len(ret.daily_stats) : ret.daily_stats[k].commits > 1
    /\ 0 < ret.week.tag_coverage_pct /\ ret.week.tag_coverage_pct < 100000
    /\ ret.week.avg_productivity > 0

(***************************************************************************)
(* Claims about the cache rows                                             *)
(***************************************************************************)
\* the cache key of repository number i of a call
KeyOf(c, i) == _make_key(c.repositories[i], c.since, c.until)

\* the call before the last one ended more than the last call's max age
\* before it: every row the last call found was written before that
Expired == /\ prev.outcome # "none"
           /\ last.use_cache
           /\ last.time - prev.time > last.max_age

\* C19: a row older than the max age is never returned by the cache: the
\* lookup is a miss and get_commits fetches the repository again; the
\* successful fetch replaces the row, so that the one row of the key holds
\* the payload and the write time of the latest set.
C19_ExpiryAndRefresh ==
    /\ \A k \in CacheKeys : cache[k].present => cache[k].timestamp <= now
    /\ \A i \in run.hits :
          LET row == cache[_make_key(client.repositories[i], run.since, run.until)]
          IN row.present /\ now - row.timestamp <= run.max_age
    /\ Finished =>
          \A i \in last.hits :
             /\ cache[KeyOf(last, i)].present
             /\ last.time - cache[KeyOf(last, i)].timestamp <= last.max_age
    /\ (Finished /\ Expired) =>
          /\ \A i \in 1..Len(last.repositories) :
                (\A h \in 1..(i - 1) : last.repositories[h] # last.repositories[i])
                   => i \notin last.hits
          /\ last.repositories # <<>> => last.net >= 1
          /\ (last.outcome = "returned" /\ NoUpstreamFailure(last)) =>
                \A i \in 1..Len(last.repositories) :
                   LET row == cache[KeyOf(last, i)]
                   IN /\ row.present
                      /\ row.timestamp = last.time
                      /\ {FromCached(row.data[k]) : k \in 1..Len(row.data)}
                            = {c \in Range(last.result) :
                                  c.repository = last.repositories[i]}

C19_Witness ==
    /\ Finished /\ Expired
    /\ prev.outcome = "returned" /\ prev.use_cache /\ NoUpstreamFailure(prev)
    /\ SameArguments(prev, last)
    /\ prev.result # <<>>
    /\ last.outcome = "returned" /\ NoUpstreamFailure(last)
    /\ last.result = prev.result
    /\ cache[KeyOf(last, 1)].timestamp = last.time
    /\ cache[KeyOf(last, 1)].timestamp > prev.time

(***************************************************************************)
(* Threads calling CommitCache.set and CommitCache.get on one key.  Each   *)
(* call opens its own connection.  A set takes the time and serialises the *)
(* data, executes INSERT OR REPLACE (which takes the write lock of the     *)
(* database file, or fails when another connection holds it until the      *)
(* timeout), and commits; the row is visible to the other connections from *)
(* the commit on.  A get executes one SELECT and then checks the age.      *)
(***************************************************************************)
MaxThreads == 3

Procs == 1..MaxThreads

\* the arguments of every call: one repository and window
SharedRepo == "r1"
SharedSince == 0
SharedUntil == 0
SharedKey == _make_key(SharedRepo, SharedSince, SharedUntil)

\* the data argument of the set of thread p
Payload(p) == [k \in 1..p |-> [sha |-> "a", additions |-> p]]

StartedThread(op, max_age_hours) ==
    [op |-> op, pc |-> "start", max_age |-> max_age_hours, timestamp |-> 0,
     data_json |-> <<>>, row |-> NoRow, result |-> NoData]

\* set: key, timestamp and data_json are computed
SetBegin(p) ==
    /\ threads.procs[p].op = "set" /\ threads.procs[p].pc = "start"
    /\ threads' = [threads EXCEPT !.procs[p].pc = "ready",
                                  !.procs[p].timestamp = now,
                                  !.procs[p].data_json = Payload(p)]
    /\ UNCHANGED <<clientVars, tagVars, call, ret>>

\* set: cursor.execute(INSERT OR REPLACE ...) in the connection's transaction
SetExecute(p) ==
    /\ threads.procs[p].op = "set" /\ threads.procs[p].pc = "ready"
    /\ threads.lock = 0
    /\ threads' = [threads EXCEPT !.procs[p].pc = "executed", !.lock = p]
    /\ UNCHANGED <<clientVars, tagVars, call, ret>>

\* set: cursor.execute raises sqlite3.OperationalError (database is locked)
SetLocked(p) ==
    /\ threads.procs[p].op = "set" /\ threads.procs[p].pc = "ready"
    /\ threads.lock # 0
    /\ threads' = [threads EXCEPT !.procs[p].pc = "raised"]
    /\ UNCHANGED <<clientVars, tagVars, call, ret>>

\* set: conn.commit()
SetCommit(p) ==
    /\ threads.procs[p].op = "set" /\ threads.procs[p].pc = "executed"
    /\ cache' = CacheSet(cache, SharedRepo, SharedSince, SharedUntil,
                         threads.procs[p].data_json, threads.procs[p].timestamp)
    /\ threads' = [threads EXCEPT !.procs[p].pc = "done", !.lock = 0,
                                  !.commits = Append(@, p)]
    /\ UNCHANGED <<client, now, run, last, prev, calls, faults>>
    /\ UNCHANGED <<tagVars, call, ret>>

\* get: SELECT data, timestamp ... ; cursor.fetchone()
GetSelect(p) ==
    /\ threads.procs[p].op = "get" /\ threads.procs[p].pc = "start"
    /\ threads' = [threads EXCEPT !.procs[p].pc = "selected",
                                  !.procs[p].row = cache[SharedKey]]
    /\ UNCHANGED <<clientVars, tagVars, call, ret>>

\* get: the checks on the row that was read, and the return
GetReturn(p) ==
    /\ threads.procs[p].op = "get" /\ threads.procs[p].pc = "selected"
    /\ threads' =
          [threads EXCEPT
             !.procs[p].pc = "done",
             !.procs[p].result =
                 CacheGet([cache EXCEPT ![SharedKey] = threads.procs[p].row],
                          SharedRepo, SharedSince, SharedUntil,
                          threads.procs[p].max_age, now)]
    /\ UNCHANGED <<clientVars, tagVars, call, ret>>

InitThreads ==
    /\ client = NoClient
    /\ cache = [k \in CacheKeys |-> NoRow]
    /\ now = 0
    /\ run = IdleRun
    /\ last = NoCall
    /\ prev = NoCall
    /\ calls = 0
    /\ faults = 0
    /\ message = <<>>
    /\ ALIAS_MAP = <<>>
    /\ parsed = NoParse
    /\ call = NoArgs /\ ret = NoReturn
    /\ \E ops \in [Procs -> {"set", "get"}], max_age_hours \in MaxAges :
          threads = [procs |-> [p \in Procs |-> StartedThread(ops[p], max_age_hours)],
                     lock |-> 0, commits |-> <<>>]

NextThreads ==
    \/ \E p \in Procs : SetBegin(p)
    \/ \E p \in Procs : SetExecute(p)
    \/ \E p \in Procs : SetLocked(p)
    \/ \E p \in Procs : SetCommit(p)
    \/ \E p \in Procs : GetSelect(p)
    \/ \E p \in Procs : GetReturn(p)
    \/ Tick

SpecThreads == InitThreads /\ [][NextThreads]_vars

\* the row the set of thread s writes
RowOf(s) == [present |-> TRUE, data |-> Payload(s),
             timestamp |-> threads.procs[s].timestamp]

Committed == Range(threads.commits)
SetsOver == \A p \in Procs : threads.procs[p].op = "set"
                                => threads.procs[p].pc \in {"done", "raised"}

\* C20: under every interleaving of sets and gets on one key a get returns
\* a miss or the whole payload of one set, read together with that set's
\* timestamp; when every set is over the row holds the payload and the
\* timestamp of the set that committed last.
C20_AtomicLastWriterWins ==
    /\ \A p \in Procs :
          (threads.procs[p].op = "get" /\ threads.procs[p].pc \in {"selected", "done"}) =>
             /\ \/ threads.procs[p].row = NoRow
                \/ \E s \in Committed : threads.procs[p].row = RowOf(s)
             /\ threads.procs[p].pc = "done" =>
                   \/ threads.procs[p].result = NoData
                   \/ \E s \in Committed :
                         /\ threads.procs[p].row = RowOf(s)
                         /\ threads.procs[p].result = SomeData(Payload(s))
    /\ \A key \in CacheKeys \ {SharedKey} : cache[key] = NoRow
    /\ IF threads.commits = <<>> THEN cache[SharedKey] = NoRow
       ELSE \E s \in Committed : cache[SharedKey] = RowOf(s)
    /\ (SetsOver /\ threads.commits # <<>>) =>
          cache[SharedKey] = RowOf(threads.commits[Len(threads.commits)])

C20_Witness ==
    /\ SetsOver
    /\ Len(threads.commits) = 2
    /\ threads.procs[threads.commits[2]].timestamp
          < threads.procs[threads.commits[1]].timestamp
    /\ cache[SharedKey] = RowOf(threads.commits[2])
    /\ \E p \in Procs :
          /\ threads.procs[p].op = "get" /\ threads.procs[p].pc = "done"
          /\ threads.procs[p].result = SomeData(Payload(threads.commits[1]))

(***************************************************************************)
(* Further claims about categorize                                         *)
(***************************************************************************)
\* the number of patterns of rule t of KEYWORD_RULES found in the message
KeywordHits(t) ==
    Cardinality({p \in 1..Len(KEYWORD_RULES[t].patterns) :
                    KeywordSearch(KEYWORD_RULES[t].patterns[p], Lower(message))})

\* rule t of KEYWORD_RULES is the first of those with the most hits
BestKeywordRule(t) ==
    /\ KeywordHits(t) >= 1
    /\ \A h \in 1..Len(KEYWORD_RULES) : KeywordHits(h) <= KeywordHits(t)
    /\ \A h \in 1..(t - 1) : KeywordHits(h) < KeywordHits(t)

\* C21: without an explicit tag categorize returns the result of the first
\* of the keyword, file-path, diff and combined stages that meets its
\* threshold (0.7, 0.8, 0.75, 0.65), then the external stage's, then the
\* fallback; a message matching n >= 1 keyword patterns of its best category
\* gets the keyword result with confidence min(0.6 + 0.15 * n, 0.95)
\* whatever the files and the diff, equal scores going to the category
\* declared first.
C21_StageOrder ==
    (CatDone /\ parsed.tag = None) =>
       LET stages == << _match_keywords(message), _match_file_paths(call.files), DiffStage,
                        _combine_signals(_match_keywords(message),
                                         _match_file_paths(call.files), DiffStage) >>
           thresholds == <<70, 80, 75, 65>>
           Meets(k) == ~Below(stages[k], thresholds[k])
       IN /\ \A k \in 1..4 :
                (Meets(k) /\ \A h \in 1..(k - 1) : ~Meets(h)) => ret.result = stages[k]
          /\ (\A k \in 1..4 : ~Meets(k)) =>
                ret.result = IF ExternalStage.is_none THEN Fallback ELSE ExternalStage
          /\ \A t \in 1..Len(KEYWORD_RULES) :
                BestKeywordRule(t) =>
                   ret.result = CategorizationResult(
                                    KEYWORD_RULES[t].tag,
                                    Min(60 + 15 * KeywordHits(t), 95) * Hundredth,
                                    "keyword")

C21_Witness ==
    /\ CatDone /\ parsed.tag = None
    /\ \E t, u \in 1..Len(KEYWORD_RULES) :
          /\ t < u /\ BestKeywordRule(t) /\ KeywordHits(u) = KeywordHits(t)
          /\ ret.result.tag = KEYWORD_RULES[t].tag
    /\ ~Below(_match_file_paths(call.files), 80)
    /\ call.diff # <<>>
    /\ ret.result.method = "keyword"

\* ---------------------------------------------------------------------
\* Per-commit statistics failure (github_client.py:247-285)
\* ---------------------------------------------------------------------

\* The records of the repository fetched by SpecFetch: the ones collected so
\* far while the fetch runs, the returned list afterwards.
ParsedRecords ==
    IF run.pc # "idle" THEN DictValues(run.commits_by_sha)
    ELSE IF last.outcome = "returned" THEN last.result ELSE <<>>

StatsFailures == IF run.pc # "idle" THEN run.statsFail ELSE last.statsFail

\* The commits _parse_commit has finished with: listed by a branch and no
\* longer waiting in the listing of the branch being walked.
Parsed(sha) ==
    IF run.pc # "idle"
    THEN \E b \in {"main", "dev"} :
            /\ <<1, b, sha>> \in run.listed
            /\ \/ run.branches = <<>>
               \/ b # Head(run.branches)
               \/ \A k \in 1..Len(run.gh_commits) : run.gh_commits[k] # sha
    ELSE /\ last.outcome = "returned"
         /\ \E b \in {"main", "dev"} : <<1, b, sha>> \in last.listed

RecordsOf(sha) ==
    {k \in 1..Len(ParsedRecords) : ParsedRecords[k].sha = sha}

\* C22: a commit whose statistics fetch failed, for whatever reason, is
\* still in the repository's result, with additions = 0 and deletions = 0;
\* a failed file fetch leaves an empty file list and the commit is kept;
\* every commit record has total_changes = additions + deletions.
C22_StatsFailureDegradesToZero ==
    /\ \A k \in 1..Len(ParsedRecords) :
          ParsedRecords[k].total_changes =
             ParsedRecords[k].additions + ParsedRecords[k].deletions
    /\ \A sha \in Shas :
          Parsed(sha) =>
             /\ RecordsOf(sha) # {}
             /\ \A k \in RecordsOf(sha) :
                   /\ ParsedRecords[k].files_changed \in {UpstreamFiles(sha), <<>>}
                   /\ IF \E o \in Outcomes : <<1, sha, o>> \in StatsFailures
                      THEN ParsedRecords[k].additions = 0 /\ ParsedRecords[k].deletions = 0
                      ELSE /\ ParsedRecords[k].additions = UpstreamStats(sha).additions
                           /\ ParsedRecords[k].deletions = UpstreamStats(sha).deletions
                           /\ ParsedRecords[k].files_changed = UpstreamFiles(sha)

\* A returned fetch in which the statistics fetch and the file fetch of a
\* commit both failed: the commit is in the result with zeros and no files.
C22_Witness ==
    /\ Finished /\ last.outcome = "returned"
    /\ \E sha \in Shas, k \in 1..Len(last.result) :
          /\ <<1, sha, "ex">> \in last.statsFail
          /\ last.result[k].sha = sha
          /\ last.result[k].additions = 0 /\ last.result[k].deletions = 0
          /\ last.result[k].total_changes = 0
          /\ last.result[k].files_changed = <<>>
          /\ UpstreamFiles(sha) # <<>>

\* ---------------------------------------------------------------------
\* One categorization per commit (egi_productivity_v7.py:149-191)
\* ---------------------------------------------------------------------

\* the number of the commits given to the call that are dated on date
DatedOn(date) ==
    Cardinality({k \in 1..Len(call.all_commits) :
                    DateOf(call.all_commits[k].date) = date})

\* the weight a commit of the tag adds: the taxonomy's, 0.5 for UNTAGGED
TaxonomyWeight(tag) == IF tag = "UNTAGGED" THEN 5 ELSE TagWeights[tag]

RECURSIVE WeightOfHistogram(_, _)
WeightOfHistogram(tags, keys) ==
    IF keys = {} THEN 0
    ELSE LET tag == CHOOSE tag \in keys : TRUE
         IN tags[tag] * TaxonomyWeight(tag) + WeightOfHistogram(tags, keys \ {tag})

\* C23: in every DayStats of analyze_day the counts of the tag histogram
\* sum to the day's commit count, which is the number of the input commits
\* dated on that day; every tag counted is a taxonomy tag or UNTAGGED, and
\* commits_weighted is the sum, over the histogram, of one strictly
\* positive weight per commit (the tag's weight, 0.5 for UNTAGGED).
C23_OneCategorizationPerCommit ==
    WeekDone =>
       \A k \in 1..Len(ret.daily_stats) :
          LET day == ret.daily_stats[k]
          IN /\ day.date = call.start_date + k - 1
             /\ day.commits = DatedOn(day.date)
             /\ SumValues(day.tags, DOMAIN day.tags) = day.commits
             /\ \A tag \in DOMAIN day.tags :
                   /\ day.tags[tag] >= 1
                   /\ tag \in DOMAIN TagWeights \cup {"UNTAGGED"}
                   /\ get_weight(tag) = TaxonomyWeight(tag)
                   /\ get_weight(tag) > 0
             /\ day.commits_weighted = WeightOfHistogram(day.tags, DOMAIN day.tags)
             /\ day.commits > 0 => day.commits_weighted > 0

\* A day of two commits: one that no stage categorizes and one that the
\* categorizer gives a taxonomy tag.
C23_Witness ==
    /\ WeekDone
    /\ \E k \in 1..Len(ret.daily_stats) :
          /\ ret.daily_stats[k].commits = 2
          /\ "UNTAGGED" \in DOMAIN ret.daily_stats[k].tags
          /\ Cardinality(DOMAIN ret.daily_stats[k].tags) = 2
          /\ ret.daily_stats[k].commits_weighted > 5

\* ---------------------------------------------------------------------
\* The alias index (tag_system_v2.py:220-237)
\* ---------------------------------------------------------------------

\* the keys the table declares for tag number t: its name, its aliases and
\* the lower-cased forms of both
DeclaredKeys(t) ==
    {TAGS[t].chars, Lower(TAGS[t].chars)}
       \cup {TAGS[t].aliases[k] : k \in 1..Len(TAGS[t].aliases)}
       \cup {Lower(TAGS[t].aliases[k]) : k \in 1..Len(TAGS[t].aliases)}

\* the keys declared by two different tags
ClaimedTwice ==
    {key \in UNION {DeclaredKeys(t) : t \in 1..Len(TAGS)} :
        \E t1, t2 \in 1..Len(TAGS) :
           t1 # t2 /\ key \in DeclaredKeys(t1) /\ key \in DeclaredKeys(t2)}

\* the index maps every declared key to the tag that declares it
Complete(map) ==
    \A t \in 1..Len(TAGS) : \A key \in DeclaredKeys(t) : DictGet(map, key) = TAGS[t].name

\* C24: once built, the alias index is left as it is by every further
\* _build_alias_map call; it maps every canonical name to itself and every
\* declared alias and its lower-cased form to its own tag, and no key is
\* declared by two different tags.
C24_IndexIdempotentAndComplete ==
    /\ ClaimedTwice = {}
    /\ Complete(BuiltAliasMap)
    /\ ALIAS_MAP # <<>> =>
          /\ ALIAS_MAP = BuiltAliasMap
          /\ _build_alias_map(ALIAS_MAP) = ALIAS_MAP
          /\ _build_alias_map(_build_alias_map(ALIAS_MAP)) = ALIAS_MAP

\* parse_tag has been called: the index is built, with more keys than tags,
\* among them an alias written in upper case and its lower-cased form.
C24_Witness ==
    /\ ParseDone
    /\ Len(ALIAS_MAP) > Len(TAGS)
    /\ DictGet(ALIAS_MAP, TAGS[1].aliases[1]) = "FEAT"
    /\ DictGet(ALIAS_MAP, Lower(TAGS[1].aliases[1])) = "FEAT"
    /\ Lower(TAGS[1].aliases[1]) # TAGS[1].aliases[1]
    /\ \A k \in 1..Len(TAGS[1].aliases) : TAGS[1].aliases[k] # Lower(TAGS[1].aliases[1])

(***************************************************************************)
(* SpecAlias: concurrent callers of TagSystem.parse_tag on the class-level *)
(* _ALIAS_MAP (tag_system_v2.py:220-260).  A caller's _build_alias_map is  *)
(* one step for the emptiness check and one step per assignment to the     *)
(* index; the lookups of parse_tag follow as one step.                     *)
(***************************************************************************)
MaxCallers == 2
Callers == 1..MaxCallers

CallerMessages ==
    { <<91, 70, 73, 88, 93, 32, 120>>,      \* '[FIX] x'
      <<100, 101, 112, 108, 111, 121, 58, 32, 120>>,   \* 'deploy: x'
      <<10024, 32, 120>>,                   \* U+2728 ' x'
      <<120>> }                             \* 'x'

\* every assignment of _build_alias_map, in the order of its loops
RECURSIVE InsertionsFrom(_)
InsertionsFrom(t) ==
    IF t > Len(TAGS) THEN <<>> ELSE TagInsertions(TAGS[t]) \o InsertionsFrom(t + 1)

AllInsertions == InsertionsFrom(1)

\* if cls._ALIAS_MAP: return  -- else the loops start
BuildCheck(p) ==
    /\ threads[p].pc = "call"
    /\ threads' = [threads EXCEPT ![p].pc = IF ALIAS_MAP # <<>> THEN "lookup" ELSE "build",
                                  ![p].k = 1]
    /\ UNCHANGED <<clientVars, tagVars, call, ret>>

\* cls._ALIAS_MAP[key] = tag_name, the k-th assignment of the caller's loops
BuildInsert(p) ==
    /\ threads[p].pc = "build"
    /\ LET k == threads[p].k
       IN /\ ALIAS_MAP' = DictSet(ALIAS_MAP, AllInsertions[k].key, AllInsertions[k].tag)
          /\ threads' = [threads EXCEPT
                            ![p].pc = IF k = Len(AllInsertions) THEN "lookup" ELSE "build",
                            ![p].k = k + 1]
    /\ UNCHANGED <<clientVars, message, parsed, call, ret>>

\* the strategies of parse_tag on the index as it is
Lookup(p) ==
    /\ threads[p].pc = "lookup"
    /\ threads' = [threads EXCEPT ![p].pc = "done",
                                  ![p].result = ParseTag(threads[p].message, ALIAS_MAP)]
    /\ UNCHANGED <<clientVars, tagVars, call, ret>>

InitAlias ==
    /\ client = NoClient
    /\ cache = [k \in CacheKeys |-> NoRow]
    /\ now = 0
    /\ run = IdleRun
    /\ last = NoCall
    /\ prev = NoCall
    /\ calls = 0
    /\ faults = 0
    /\ message = <<>>
    /\ ALIAS_MAP = <<>>
    /\ parsed = NoParse
    /\ call = NoArgs /\ ret = NoReturn
    /\ threads \in [Callers -> [pc : {"call"}, k : {1}, message : CallerMessages,
                                result : {NoParse}]]

NextAlias ==
    \/ \E p \in Callers : BuildCheck(p)
    \/ \E p \in Callers : BuildInsert(p)
    \/ \E p \in Callers : Lookup(p)

SpecAlias == InitAlias /\ [][NextAlias]_vars

\* C25: every concurrent parse_tag call returns what it would return
\* against the fully built index: no caller that finds the index non-empty
\* looks up in an index some declared alias is still missing from.
C25_NoPartialIndexLookup ==
    \A p \in Callers :
       threads[p].pc = "done" =>
          threads[p].result = ParseTag(threads[p].message, BuiltAliasMap)

\* ---------------------------------------------------------------------
\* The combined stage (auto_categorizer.py:163-182, 277-307)
\* ---------------------------------------------------------------------

\* the stages whose results categorize hands to _combine_signals
StageResults(msg, files, diff) ==
    <<_match_keywords(msg), _match_file_paths(files),
      IF diff # <<>> THEN _match_diff_patterns(diff) ELSE NoResult>>

\* how many of them gave the tag
Agreeing(stages, tag) ==
    Cardinality({k \in 1..Len(stages) : ~stages[k].is_none /\ stages[k].tag = tag})

\* what categorize returns without the classifier
Unaided(msg, files, diff) ==
    categorize(ParseTag(msg, BuiltAliasMap), msg, files, diff, FALSE, FALSE, Raises).result

\* C26: there are inputs (message, files, diff) of categorize for which the
\* result has method 'combined' and was formed from two or more stages
\* that agree on the category, with the boost applied: among the calls
\* categorize can have returned from, one is such a call.
C26_BoostReachable ==
    CatDone =>
       \E msg \in CatMessages, files \in FileLists, diff \in Diffs :
          /\ Unaided(msg, files, diff).method = "combined"
          /\ Agreeing(StageResults(msg, files, diff), Unaided(msg, files, diff).tag) >= 2

\* ---------------------------------------------------------------------
\* Failed repository fetches and the cache (github_client.py:227-245)
\* ---------------------------------------------------------------------

\* the repository fetches that have failed in the call that is running, or
\* in the last one
RepoFailures == IF run.pc # "idle" THEN run.repoFail ELSE last.repoFail

\* every fetch of repository number i's name failed in the call, with a
\* GithubException that _get_repo_commits caught
AllFetchesFailed(c, i) ==
    \A j \in 1..Len(c.repositories) :
       c.repositories[j] = c.repositories[i] =>
          \E kind \in {"gh", "rl"} : <<j, kind>> \in c.repoFail

\* the call after a call with a failed fetch, with the same arguments, goes
\* to upstream for the repository: its first fetch of the repository is
\* not served from the cache (a list naming the repository again may then
\* be served what that fetch has cached)
RefetchedAfterFailure ==
    (/\ Finished
     /\ prev.outcome = "returned"
     /\ SameArguments(prev, last))
       => \A i \in 1..Len(prev.repositories) :
             AllFetchesFailed(prev, i) =>
                \A j \in 1..Len(last.repositories) :
                   (/\ last.repositories[j] = prev.repositories[i]
                    /\ \A h \in 1..(j - 1) : last.repositories[h] # last.repositories[j])
                      => j \notin last.hits

\* C27: the step in which the upstream fetch of a repository fails leaves
\* every cache entry as it was, and the next get_commits call with the same
\* arguments fetches the repository from upstream again instead of serving
\* it from the cache.
C27_FailedFetchLeavesCache ==
    [][/\ (RepoFailures' \ RepoFailures # {} /\ run.pc # "idle") => cache' = cache
       /\ RefetchedAfterFailure']_vars

\* A cached call whose only repository failed, followed by the same call,
\* which went to upstream for it and cached what it fetched.
C27_Witness ==
    /\ Finished
    /\ prev.outcome = "returned" /\ prev.use_cache
    /\ Len(prev.repositories) = 1 /\ AllFetchesFailed(prev, 1)
    /\ prev.result = <<>>
    /\ SameArguments(prev, last)
    /\ last.outcome = "returned" /\ last.hits = {} /\ last.net >= 1
    /\ last.result # <<>>
    /\ cache[KeyOf(last, 1)].present /\ cache[KeyOf(last, 1)].timestamp = last.time

\* ---------------------------------------------------------------------
\* What a fetch caches (github_client.py:227-241, 253-269, 306-322)
\* ---------------------------------------------------------------------

\* the commits upstream holds for a cache key, over every branch
UpstreamShas(key) ==
    UNION {Range(ListCommits(key[1], branch, key[2], key[3])) :
              branch \in UpstreamBranches(key[1])}

\* a list of commit records holds every commit of the key, each with the
\* line statistics upstream has for it
CompleteFor(key, records) ==
    /\ {records[k].sha : k \in 1..Len(records)} = UpstreamShas(key)
    /\ \A k \in 1..Len(records) :
          /\ records[k].additions = UpstreamStats(records[k].sha).additions
          /\ records[k].deletions = UpstreamStats(records[k].sha).deletions

\* C28: a cache entry is written only by a fetch in which every branch
\* listing and every statistics fetch succeeded: every cached list holds
\* all the commits of its key with their true line statistics, and so does
\* what a cache hit serves.
C28_OnlyCompleteResultsCached ==
    /\ \A key \in CacheKeys : cache[key].present => CompleteFor(key, cache[key].data)
    /\ (Finished /\ last.outcome = "returned") =>
          \A i \in last.hits :
             CompleteFor(KeyOf(last, i),
                         SelectSeq(last.result,
                                   LAMBDA c : c.repository = last.repositories[i]))

(***************************************************************************)
(* SpecReport: ProductivityAnalyzer.generate_full_report                   *)
(* (egi_productivity_v7.py:322-373) on the commits its get_commits call    *)
(* returns for the window.  Dates are day numbers counted as               *)
(* date.toordinal() counts them: day 1 is a Monday.                        *)
(***************************************************************************)
MaxReportDay == 10

\* date.weekday(): Monday is 0
Weekday(date) == (date + 6) % 7

\* the commits upstream may hold: those of Commits, spread over two weeks
ReportCommits ==
    {[c EXCEPT !.date = [day |-> 4 * c.date.day - 1, hour |-> c.date.hour]] : c \in Commits}

\* all_commits.sort(key=lambda c: c.date) on commits of distinct dates
RECURSIVE SortedByDatetime(_)
SortedByDatetime(commits) ==
    IF commits = {} THEN <<>>
    ELSE LET first == CHOOSE c \in commits :
                         \A d \in commits :
                            \/ c.date.day < d.date.day
                            \/ c.date.day = d.date.day /\ c.date.hour <= d.date.hour
         IN <<first>> \o SortedByDatetime(commits \ {first})

\* self.github.get_commits(start_dt, end_dt) with start_dt the first instant
\* of start_date and end_dt the last instant of end_date; the fetch lists
\* the commits from since to until + timedelta(days=1)
ReportFetch(upstream, start_date, end_date) ==
    SortedByDatetime({c \in upstream :
                         /\ start_date <= c.date.day
                         /\ c.date.day <= end_date + 1})

\* the while loop of generate_full_report from one Monday on: what
\* analyze_week returns for each week
RECURSIVE WeeksFrom(_, _, _, _, _)
WeeksFrom(week_number, current_monday, end_date, all_commits, map) ==
    IF current_monday > end_date THEN <<>>
    ELSE <<analyze_week(week_number, current_monday,
                        Min(current_monday + 6, end_date), all_commits, map)>>
            \o WeeksFrom(week_number + 1, current_monday + 7, end_date, all_commits, map)

\* all_weekly_stats and all_daily_stats
ReportOf(weeks) ==
    [weekly |-> [k \in 1..Len(weeks) |-> weeks[k].week],
     daily |-> Flatten([k \in 1..Len(weeks) |-> weeks[k].daily_stats])]

generate_full_report(start_date, end_date, all_commits, map) ==
    ReportOf(WeeksFrom(1, start_date - Weekday(start_date), end_date, all_commits, map))

ReportCalls ==
    [fn : {"generate_full_report"}, start_date : 1..MaxReportDay,
     end_date : 1..MaxReportDay,
     upstream : {u \in SUBSET ReportCommits : Cardinality(u) <= MaxCommits}]

\* analyzer.generate_full_report(start_date, end_date)
GenerateFullReport ==
    /\ call.fn = "generate_full_report" /\ ret = NoReturn
    /\ \E all_commits \in {ReportFetch(call.upstream, call.start_date, call.end_date)} :
          /\ ALIAS_MAP' = IF \E k \in 1..Len(all_commits) :
                                all_commits[k].date.day <= call.end_date
                          THEN _build_alias_map(ALIAS_MAP) ELSE ALIAS_MAP
          /\ \E report \in {generate_full_report(call.start_date, call.end_date,
                                                  all_commits, BuiltAliasMap)} :
                ret' = [fn |-> "generate_full_report", all_commits |-> all_commits,
                        weekly |-> report.weekly, daily |-> report.daily]
    /\ UNCHANGED <<clientVars, message, parsed, call, threads>>

InitReport ==
    /\ client = NoClient
    /\ cache = [k \in CacheKeys |-> NoRow]
    /\ now = 0
    /\ run = IdleRun
    /\ last = NoCall
    /\ prev = NoCall
    /\ calls = 0
    /\ faults = 0
    /\ message = <<>>
    /\ ALIAS_MAP = <<>>
    /\ parsed = NoParse
    /\ call \in ReportCalls
    /\ ret = NoReturn
    /\ threads = <<>>

NextReport == GenerateFullReport

SpecReport == InitReport /\ [][NextReport]_vars

ReportDone == ret.fn = "generate_full_report"

\* the Monday of start_date's week
FirstMonday == call.start_date - Weekday(call.start_date)

\* the weeks are consecutive Monday-aligned ranges of at most 7 days,
\* numbered from 1, that end with end_date
WeeksAligned ==
    /\ Len(ret.weekly) = IF call.end_date < FirstMonday THEN 0
                         ELSE (call.end_date - FirstMonday) \div 7 + 1
    /\ \A k \in 1..Len(ret.weekly) :
          /\ ret.weekly[k].week_number = k
          /\ ret.weekly[k].start_date = FirstMonday + 7 * (k - 1)
          /\ Weekday(ret.weekly[k].start_date) = 0
          /\ ret.weekly[k].end_date = Min(ret.weekly[k].start_date + 6, call.end_date)

\* one DayStats per day from the first Monday through end_date, ascending
DaysCovered ==
    /\ Len(ret.daily) = Max(0, call.end_date - FirstMonday + 1)
    /\ \A k \in 1..Len(ret.daily) : ret.daily[k].date = FirstMonday + k - 1

\* C29: the report's weeks are consecutive Monday-aligned ranges of at most
\* 7 days numbered 1, 2, 3, ...; the daily list holds one DayStats per
\* calendar day from the Monday of start_date's week through end_date, in
\* ascending order; and the commit counts of the weeks sum to the number of
\* commits get_commits returned for the report window.
C29_ReportCoverage ==
    ReportDone =>
       /\ WeeksAligned
       /\ DaysCovered
       /\ Sum([k \in 1..Len(ret.weekly) |-> ret.weekly[k].commits]) = Len(ret.all_commits)

(***************************************************************************)
(* SpecIngest: the daily rows of ingest_data                               *)
(* (ingest_to_remotedb.py:127-250) next to analyze_day on the same         *)
(* commits: the commits of one repository on one calendar date.            *)
(***************************************************************************)

\* ingest_to_remotedb.classify_day_type: the multiplier comes with the type
ingest_classify_day_type(tag_percentages) ==
    IF \E t \in 1..Len(DAY_TYPES) : Criteria(DAY_TYPES[t].name, tag_percentages)
    THEN LET t == CHOOSE t \in 1..Len(DAY_TYPES) :
                     /\ Criteria(DAY_TYPES[t].name, tag_percentages)
                     /\ \A h \in 1..(t - 1) : ~Criteria(DAY_TYPES[h].name, tag_percentages)
         IN [day_type |-> DAY_TYPES[t].name, icon |-> DAY_TYPES[t].icon,
             multiplier |-> DAY_TYPES[t].multiplier]
    ELSE [day_type |-> "MIXED", icon |-> DayType("MIXED").icon,
          multiplier |-> DayType("MIXED").multiplier]

\* step A of the loop over the commits: the tag parse_tag finds, if the
\* taxonomy has a configuration for it, else UNTAGGED with weight 0.5
IngestItem(commit, map) ==
    LET tag_name == ParseTag(commit.message, map).tag
    IN IF tag_name # None /\ tag_name \in DOMAIN TagWeights
       THEN [commit |-> commit, weight |-> TagWeights[tag_name], tag |-> tag_name]
       ELSE [commit |-> commit, weight |-> 5, tag |-> "UNTAGGED"]

\* step 4: the daily_stats row of one (date, repository) group
\* (calculate_cognitive_load and calculate_productivity_index of the
\* ingestion script are copies of the core's)
DailyRow(d, r, items) ==
    LET total_commits == Len(items)
        weighted_commits == Sum([k \in 1..total_commits |-> items[k].weight])
        lines_added == Sum([k \in 1..total_commits |-> items[k].commit.additions])
        lines_deleted == Sum([k \in 1..total_commits |-> items[k].commit.deletions])
        lines_touched == lines_added + lines_deleted
        lines_net == lines_added - lines_deleted
        files_touched_set ==
            UNION {Range(items[k].commit.files_changed) : k \in 1..total_commits}
        files_touched_count == Cardinality(files_touched_set)
        tag_counts == Counter([k \in 1..total_commits |-> items[k].tag])
        tag_percentages ==
            [tag \in DOMAIN tag_counts |-> Percentage(tag_counts[tag], total_commits)]
        classified == ingest_classify_day_type(tag_percentages)
        cognitive_load ==
            calculate_cognitive_load(total_commits, files_touched_count, lines_touched)
        pi_score == calculate_productivity_index(weighted_commits, lines_net,
                                                 cognitive_load, classified.multiplier)
    IN [date |-> d, repo_name |-> r,
        total_commits |-> total_commits, weighted_commits |-> weighted_commits,
        lines_added |-> lines_added, lines_deleted |-> lines_deleted,
        net_lines |-> lines_net, productivity_score |-> pi_score,
        files_touched |-> files_touched_count, day_type |-> classified.day_type,
        day_type_icon |-> classified.icon, cognitive_load |-> cognitive_load,
        coding_minutes |-> total_commits * 22, testing_minutes |-> total_commits * 22,
        tags_breakdown |-> tag_counts]

\* steps 3B and 4: the commits grouped by (date, repository), one row each
DailyRows(items) ==
    LET keys == {<<DateOf(items[k].commit.date), items[k].commit.repository>> :
                    k \in 1..Len(items)}
    IN [key_d \in keys |->
          DailyRow(key_d[1], key_d[2],
                   SelectSeq(items, LAMBDA i : /\ DateOf(i.commit.date) = key_d[1]
                                                /\ i.commit.repository = key_d[2]))]

\* the commits of a repository on a date: those of Commits, at their hours
DayCommits(date, repo) ==
    {[c EXCEPT !.date = [day |-> date, hour |-> c.date.hour], !.repository = repo] :
        c \in Commits}

IngestCalls ==
    UNION {[fn : {"daily"}, date : {date}, repo : {repo},
            commits : SeqsUpTo(DayCommits(date, repo), MaxCommits)] :
              date \in 1..MaxDate, repo \in {"a", "b"}}

NoDaily == [fn |-> "daily", rows |-> <<>>, ingested |-> FALSE,
            day |-> <<>>, analyzed |-> FALSE]

\* ingest_data on the commits its get_commits call returned for the
\* repository: nothing is written when there is none
IngestData ==
    /\ call.fn = "daily"
    /\ ~ret.ingested
    /\ ALIAS_MAP' = IF call.commits # <<>> THEN _build_alias_map(ALIAS_MAP) ELSE ALIAS_MAP
    /\ \E items \in {[k \in 1..Len(call.commits) |->
                         IngestItem(call.commits[k], ALIAS_MAP')]} :
          \E rows \in {DailyRows(items)} :
             ret' = [ret EXCEPT !.rows = rows, !.ingested = TRUE]
    /\ UNCHANGED <<clientVars, message, parsed, call, threads>>

\* analyzer.analyze_day(date, commits) on the same commits
AnalyzeDay ==
    /\ call.fn = "daily"
    /\ ~ret.analyzed
    /\ ALIAS_MAP' = IF call.commits # <<>> THEN _build_alias_map(ALIAS_MAP) ELSE ALIAS_MAP
    /\ \E day \in {analyze_day(call.date, call.commits, ALIAS_MAP')} :
          ret' = [ret EXCEPT !.day = day, !.analyzed = TRUE]
    /\ UNCHANGED <<clientVars, message, parsed, call, threads>>

InitIngest ==
    /\ client = NoClient
    /\ cache = [k \in CacheKeys |-> NoRow]
    /\ now = 0
    /\ run = IdleRun
    /\ last = NoCall
    /\ prev = NoCall
    /\ calls = 0
    /\ faults = 0
    /\ message = <<>>
    /\ ALIAS_MAP = <<>>
    /\ parsed = NoParse
    /\ call \in IngestCalls
    /\ ret = NoDaily
    /\ threads = <<>>

NextIngest ==
    \/ IngestData
    \/ AnalyzeDay

SpecIngest == InitIngest /\ [][NextIngest]_vars

BothDone == ret.ingested /\ ret.analyzed

\* C30: for the commits of one repository on one date, the daily row of
\* ingest_data equals the DayStats of analyze_day on the same commits:
\* total and weighted commits, lines added, deleted and net, files
\* touched, tag breakdown, day type, cognitive load and productivity score.
C30_IngestAgreesWithReport ==
    (BothDone /\ call.commits # <<>>) =>
       /\ DOMAIN ret.rows = {<<call.date, call.repo>>}
       /\ LET row == ret.rows[<<call.date, call.repo>>]
          IN /\ row.total_commits = ret.day.commits
             /\ row.weighted_commits = ret.day.commits_weighted
             /\ row.lines_added = ret.day.lines_added
             /\ row.lines_deleted = ret.day.lines_removed
             /\ row.net_lines = ret.day.lines_net
             /\ row.files_touched = ret.day.files_modified
             /\ row.tags_breakdown = ret.day.tags
             /\ row.day_type = ret.day.day_type
             /\ row.cognitive_load = ret.day.cognitive_load
             /\ row.productivity_score = ret.day.productivity_index

====
